---- MODULE Spec2Model ----
(***************************************************************************)
(* A model of the music-download scripts: the duration parser, the         *)
(* YouTube search and closest-match selection, the three per-item loops    *)
(* (page extraction, video search, audio download), and the JSON and CSV   *)
(* files that connect them.                                                *)
(*                                                                         *)
(* Python values are records [type, s, n]: a str carries its characters    *)
(* in s (a sequence of one-character strings), an int or a bool its value  *)
(* in n.  Absent marks a key that a dict does not hold; it is what         *)
(* dict.get(key, default) replaces by the default, and is no Python value. *)
(***************************************************************************)
EXTENDS Integers, Sequences, FiniteSets, TLC

VARIABLES
  \* the duration parser, called on one input
  duration_str,      \* the argument of duration_to_seconds
  ds_result,         \* outcome of youtube_search.duration_to_seconds
  yts_result,        \* outcome of utils.YouTubeSearcher.duration_to_seconds
  \* one record taken through one iteration of a search driver
  track,             \* the record, before and after the iteration
  driver,            \* the driver that processes it
  proc,              \* what the yt-dlp subprocess returned for it
  youtube_result,    \* what search_youtube_track returned for it
  search_pc,         \* "fresh", then "enriched"
  \* a list of Track records saved to a JSON file and loaded back
  json_tracks,       \* the list handed to save_tracks_json
  json_file,         \* the text of the file
  json_loaded,       \* the list load_tracks_json returned
  json_pc,           \* "new", "saved", "loaded"
  \* one record written as a CSV line and loaded back
  csv_track,         \* the record written
  csv_file,          \* the lines of the file, the header first
  csv_loaded,        \* the list the loader returned
  csv_pc,            \* "new", "written", "loaded"
  \* the scripts run one after the other in one working directory
  fs,                \* the files, by path
  pc,                \* the script that runs and its place in it
  idx,               \* the index of the running loop (i in the scripts)
  ex_urls,           \* extract_tracklist.main: urls
  ex_tracks,         \* extract_tracklist.main: tracks
  ys_tracks,         \* youtube_search.main: tracks
  enhanced_tracks,   \* youtube_search.main: enhanced_tracks
  successful_matches,
  dl_urls,           \* download_youtube_to_mp3: urls
  successful_downloads,
  failed_downloads,
  log,               \* the external calls, sleeps and summaries, in order
  exit_status,       \* how each script ended: "", "ok" or the exception
  download_script    \* the download script that is run

durationVars == <<duration_str, ds_result, yts_result>>
searchVars == <<track, driver, proc, youtube_result, search_pc>>
jsonVars == <<json_tracks, json_file, json_loaded, json_pc>>
csvVars == <<csv_track, csv_file, csv_loaded, csv_pc>>
pipelineVars ==
  <<fs, pc, idx, ex_urls, ex_tracks, ys_tracks, enhanced_tracks,
    successful_matches, dl_urls, successful_downloads, failed_downloads, log,
    exit_status, download_script>>
vars == <<durationVars, searchVars, jsonVars, csvVars, pipelineVars>>

\* The value of the variables of the parts that a specification leaves out.
Idle == "idle"

IdleDuration == duration_str = Idle /\ ds_result = Idle /\ yts_result = Idle

IdleSearch ==
  /\ track = Idle
  /\ driver = Idle
  /\ proc = Idle
  /\ youtube_result = Idle
  /\ search_pc = Idle

IdleJson ==
  json_tracks = Idle /\ json_file = Idle /\ json_loaded = Idle /\ json_pc = Idle

IdleCsv ==
  csv_track = Idle /\ csv_file = Idle /\ csv_loaded = Idle /\ csv_pc = Idle

IdlePipeline ==
  /\ fs = Idle
  /\ pc = Idle
  /\ idx = Idle
  /\ ex_urls = Idle
  /\ ex_tracks = Idle
  /\ ys_tracks = Idle
  /\ enhanced_tracks = Idle
  /\ successful_matches = Idle
  /\ dl_urls = Idle
  /\ successful_downloads = Idle
  /\ failed_downloads = Idle
  /\ log = Idle
  /\ exit_status = Idle
  /\ download_script = Idle

-----------------------------------------------------------------------------
(* Python values *)

PyStr(chars) == [type |-> "str", s |-> chars, n |-> 0]
PyInt(i) == [type |-> "int", s |-> <<>>, n |-> i]
PyBool(b) == [type |-> "bool", s |-> <<>>, n |-> IF b THEN 1 ELSE 0]
PyNone == [type |-> "NoneType", s |-> <<>>, n |-> 0]
Absent == [type |-> "absent", s |-> <<>>, n |-> 0]

\* The outcome of a call: a returned value, or an exception that left it.
Ret(v) == [exc |-> "", val |-> v]
Raise(e) == [exc |-> e, val |-> 0]
Pending == [exc |-> "pending", val |-> 0]

Digits == <<"0", "1", "2", "3", "4", "5", "6", "7", "8", "9">>

IsDigit(c) == \E k \in 1..10 : Digits[k] = c

DigitValue(c) == (CHOOSE k \in 1..10 : Digits[k] = c) - 1

AllDigits(chars) == \A k \in 1..Len(chars) : IsDigit(chars[k])

RECURSIVE DecimalValue(_)
DecimalValue(chars) ==
  IF chars = <<>> THEN 0
  ELSE 10 * DecimalValue(SubSeq(chars, 1, Len(chars) - 1))
         + DigitValue(chars[Len(chars)])

\* int(s) on a str: the decimal value of a non-empty run of digits, ValueError
\* otherwise.  (Python also accepts a sign, surrounding blanks and underscores
\* between digits; the alphabet of the model holds none of these.)
PyIntOfStr(chars) ==
  IF chars # <<>> /\ AllDigits(chars) THEN Ret(DecimalValue(chars))
  ELSE Raise("ValueError")

\* s.split(sep): the pieces of s between the occurrences of sep; always at
\* least one piece, and empty pieces are kept.
RECURSIVE SplitFrom(_, _, _)
SplitFrom(chars, sep, piece) ==
  IF chars = <<>> THEN <<piece>>
  ELSE IF Head(chars) = sep THEN <<piece>> \o SplitFrom(Tail(chars), sep, <<>>)
  ELSE SplitFrom(Tail(chars), sep, Append(piece, Head(chars)))

Split(chars, sep) == SplitFrom(chars, sep, <<>>)

Contains(chars, c) == \E k \in 1..Len(chars) : chars[k] = c

-----------------------------------------------------------------------------
(* duration_to_seconds, in its two copies *)

\* int(minutes) * 60 + int(seconds)
Seconds2(minutes, seconds) == minutes * 60 + seconds

\* int(hours) * 3600 + int(minutes) * 60 + int(seconds)
Seconds3(hours, minutes, seconds) == hours * 3600 + minutes * 60 + seconds

\* The try body of youtube_search.duration_to_seconds.
ds_body(d) ==
  IF d.type # "str" THEN Raise("TypeError")      \* ':' not in duration_str
  ELSE IF ~Contains(d.s, ":") THEN Ret(0)
  ELSE LET parts == Split(d.s, ":") IN
    IF Len(parts) = 2 THEN
      LET minutes == PyIntOfStr(parts[1])
          seconds == PyIntOfStr(parts[2]) IN
      IF minutes.exc # "" THEN minutes
      ELSE IF seconds.exc # "" THEN seconds
      ELSE Ret(Seconds2(minutes.val, seconds.val))
    ELSE IF Len(parts) = 3 THEN
      LET hours == PyIntOfStr(parts[1])
          minutes == PyIntOfStr(parts[2])
          seconds == PyIntOfStr(parts[3]) IN
      IF hours.exc # "" THEN hours
      ELSE IF minutes.exc # "" THEN minutes
      ELSE IF seconds.exc # "" THEN seconds
      ELSE Ret(Seconds3(hours.val, minutes.val, seconds.val))
    ELSE Ret(0)

\* except (ValueError, AttributeError): return 0
duration_to_seconds(d) ==
  LET r == ds_body(d) IN
  IF r.exc \in {"ValueError", "AttributeError"} THEN Ret(0) ELSE r

\* int(minutes) * 60 + int(seconds)
YTS_Seconds2(minutes, seconds) == minutes * 60 + seconds

\* A slip in the utils copy: the hours counted as minutes.
YTS_Seconds3_HoursAsMinutes(hours, minutes, seconds) ==
  hours * 60 + minutes * 60 + seconds

\* int(hours) * 3600 + int(minutes) * 60 + int(seconds)
YTS_Seconds3(hours, minutes, seconds) == hours * 3600 + minutes * 60 + seconds

\* The try body of utils.YouTubeSearcher.duration_to_seconds.
yts_ds_body(d) ==
  IF d.type # "str" THEN Raise("TypeError")      \* ':' not in duration_str
  ELSE IF ~Contains(d.s, ":") THEN Ret(0)
  ELSE LET parts == Split(d.s, ":") IN
    IF Len(parts) = 2 THEN
      LET minutes == PyIntOfStr(parts[1])
          seconds == PyIntOfStr(parts[2]) IN
      IF minutes.exc # "" THEN minutes
      ELSE IF seconds.exc # "" THEN seconds
      ELSE Ret(YTS_Seconds2(minutes.val, seconds.val))
    ELSE IF Len(parts) = 3 THEN
      LET hours == PyIntOfStr(parts[1])
          minutes == PyIntOfStr(parts[2])
          seconds == PyIntOfStr(parts[3]) IN
      IF hours.exc # "" THEN hours
      ELSE IF minutes.exc # "" THEN minutes
      ELSE IF seconds.exc # "" THEN seconds
      ELSE Ret(YTS_Seconds3(hours.val, minutes.val, seconds.val))
    ELSE Ret(0)

\* except (ValueError, AttributeError): return 0
YTS_duration_to_seconds(d) ==
  LET r == yts_ds_body(d) IN
  IF r.exc \in {"ValueError", "AttributeError"} THEN Ret(0) ELSE r

-----------------------------------------------------------------------------
(* The duration parser on bounded inputs *)

MaxDurLen == 5

DurAlphabet == {"0", "1", "5", ":", "x"}

RECURSIVE StringsOfLen(_, _)
StringsOfLen(alphabet, k) ==
  IF k = 0 THEN {<<>>}
  ELSE {Append(w, c) : w \in StringsOfLen(alphabet, k - 1), c \in alphabet}

StringsUpTo(alphabet, k) == UNION {StringsOfLen(alphabet, j) : j \in 0..k}

\* What a record's duration field can hold: a str, or, read from JSON, null
\* or a number.
DurInputs ==
  {PyStr(w) : w \in StringsUpTo(DurAlphabet, MaxDurLen)} \cup {PyNone, PyInt(200)}

InitDuration ==
  /\ duration_str \in DurInputs
  /\ ds_result = Pending
  /\ yts_result = Pending
  /\ IdleSearch
  /\ IdleJson
  /\ IdleCsv
  /\ IdlePipeline

Call_duration_to_seconds ==
  /\ ds_result = Pending
  /\ ds_result' = duration_to_seconds(duration_str)
  /\ UNCHANGED <<duration_str, yts_result, searchVars, jsonVars, csvVars, pipelineVars>>

Call_YTS_duration_to_seconds ==
  /\ yts_result = Pending
  /\ yts_result' = YTS_duration_to_seconds(duration_str)
  /\ UNCHANGED <<duration_str, ds_result, searchVars, jsonVars, csvVars, pipelineVars>>

NextDuration == Call_duration_to_seconds \/ Call_YTS_duration_to_seconds

SpecDuration == InitDuration /\ [][NextDuration]_vars

-----------------------------------------------------------------------------
(* Properties of the duration parser *)

DurationCalled == ds_result # Pending /\ yts_result # Pending

ColonPositions(chars) == {k \in 1..Len(chars) : chars[k] = ":"}

DigitRun(chars, from, to) ==
  from <= to /\ AllDigits(SubSeq(chars, from, to))

\* "M:SS": one colon, decimal digits on both sides of it.
IsMSS(chars) ==
  /\ Cardinality(ColonPositions(chars)) = 1
  /\ LET p == CHOOSE k \in ColonPositions(chars) : TRUE IN
       DigitRun(chars, 1, p - 1) /\ DigitRun(chars, p + 1, Len(chars))

ExpectedMSS(chars) ==
  LET p == CHOOSE k \in ColonPositions(chars) : TRUE IN
  60 * DecimalValue(SubSeq(chars, 1, p - 1))
    + DecimalValue(SubSeq(chars, p + 1, Len(chars)))

\* "H:MM:SS": two colons, decimal digits before, between and after them.
IsHMMSS(chars) ==
  /\ Cardinality(ColonPositions(chars)) = 2
  /\ LET p == CHOOSE k \in ColonPositions(chars) :
                \A j \in ColonPositions(chars) : k <= j
         q == CHOOSE k \in ColonPositions(chars) :
                \A j \in ColonPositions(chars) : k >= j IN
       /\ DigitRun(chars, 1, p - 1)
       /\ DigitRun(chars, p + 1, q - 1)
       /\ DigitRun(chars, q + 1, Len(chars))

ExpectedHMMSS(chars) ==
  LET p == CHOOSE k \in ColonPositions(chars) :
             \A j \in ColonPositions(chars) : k <= j
      q == CHOOSE k \in ColonPositions(chars) :
             \A j \in ColonPositions(chars) : k >= j IN
  3600 * DecimalValue(SubSeq(chars, 1, p - 1))
    + 60 * DecimalValue(SubSeq(chars, p + 1, q - 1))
    + DecimalValue(SubSeq(chars, q + 1, Len(chars)))

\* C3: on every "M:SS" input duration_to_seconds returns 60*M + SS and on
\* every "H:MM:SS" input 3600*H + 60*MM + SS, the parts being decimal digits,
\* and the copy in youtube_search and the copy in utils return the same value.
C3_DurationValue ==
  duration_str.type = "str" =>
    /\ IsMSS(duration_str.s) =>
         /\ ds_result \in {Pending, Ret(ExpectedMSS(duration_str.s))}
         /\ yts_result \in {Pending, Ret(ExpectedMSS(duration_str.s))}
    /\ IsHMMSS(duration_str.s) =>
         /\ ds_result \in {Pending, Ret(ExpectedHMMSS(duration_str.s))}
         /\ yts_result \in {Pending, Ret(ExpectedHMMSS(duration_str.s))}
    /\ (DurationCalled /\ (IsMSS(duration_str.s) \/ IsHMMSS(duration_str.s)))
         => ds_result = yts_result

\* Both copies have converted "1:0:5" to 3605 seconds.
C3_Witness ==
  /\ DurationCalled
  /\ duration_str = PyStr(<<"1", ":", "0", ":", "5">>)
  /\ ds_result = Ret(3605)
  /\ yts_result = Ret(3605)

\* The malformed inputs: no str at all, a str with no colon, with more than
\* three colon-separated parts, or with a part that is empty or holds a
\* character that is no digit.
Malformed(d) ==
  \/ d.type # "str"
  \/ /\ d.type = "str"
     /\ \/ ColonPositions(d.s) = {}
        \/ Cardinality(ColonPositions(d.s)) > 2
        \/ ~(IsMSS(d.s) \/ IsHMMSS(d.s))

\* C4: duration_to_seconds returns zero, and raises nothing, on every
\* malformed input, a missing (null or non-string) duration included.
C4_MalformedIsZero ==
  Malformed(duration_str) =>
    /\ ds_result \in {Pending, Ret(0)}
    /\ yts_result \in {Pending, Ret(0)}

\* The part of C4 that the code does deliver: every malformed str gives zero.
C4_MalformedStrIsZero ==
  (duration_str.type = "str" /\ Malformed(duration_str)) =>
    /\ ds_result \in {Pending, Ret(0)}
    /\ yts_result \in {Pending, Ret(0)}

\* What a missing duration does instead: the TypeError of the membership test
\* leaves both copies, the except clause naming only ValueError and
\* AttributeError.
C4_NoneRaises ==
  (duration_str.type # "str") =>
    /\ ds_result \in {Pending, Raise("TypeError")}
    /\ yts_result \in {Pending, Raise("TypeError")}

-----------------------------------------------------------------------------
(* Track records and the yt-dlp search output *)

Fields ==
  {"title", "artist", "duration", "source", "url", "track_number",
   "youtube_url", "youtube_title", "youtube_duration", "youtube_channel",
   "duration_match", "duration_difference", "search_query"}

VideoKeys == {"duration", "title", "webpage_url", "uploader"}

Unknown == PyStr(<<"U", "n", "k", "n", "o", "w", "n">>)
EmptyStr == PyStr(<<>>)

\* d.get(key, default): the default only when the dict holds no such key; a
\* key that holds null gives None.
DictGet(d, key, default) == IF d[key] = Absent THEN default ELSE d[key]

\* bool(v), as "if v:" takes it.
Truthy(v) ==
  CASE v.type = "int" -> v.n # 0
    [] v.type = "bool" -> v.n # 0
    [] v.type = "str" -> v.s # <<>>
    [] OTHER -> FALSE

RECURSIVE IntToStr(_)
IntToStr(i) ==
  IF i < 10 THEN <<Digits[i + 1]>>
  ELSE IntToStr(i \div 10) \o <<Digits[(i % 10) + 1]>>

\* f"{minutes}:{seconds:02d}" of a truthy duration, "Unknown" otherwise.
DurationStr(video_duration) ==
  IF Truthy(video_duration) THEN
    LET minutes == video_duration.n \div 60
        seconds == video_duration.n % 60 IN
    PyStr(IntToStr(minutes) \o <<":">>
            \o (IF seconds < 10 THEN <<"0">> ELSE <<>>) \o IntToStr(seconds))
  ELSE Unknown

Abs(i) == IF i < 0 THEN -i ELSE i

\* The dict that search_youtube_track returns; none marks its other return
\* value, None.
ResultDict(url, title, dstr, channel, match, diff, query) ==
  [none |-> FALSE, youtube_url |-> url, youtube_title |-> title,
   youtube_duration |-> dstr, youtube_channel |-> channel,
   duration_match |-> PyBool(match), duration_difference |-> PyInt(diff),
   search_query |-> query]

NoneResult ==
  [none |-> TRUE, youtube_url |-> PyNone, youtube_title |-> PyNone,
   youtube_duration |-> PyNone, youtube_channel |-> PyNone,
   duration_match |-> PyNone, duration_difference |-> PyNone,
   search_query |-> PyNone]

\* What subprocess.run(cmd) gives: a completed process with its return code
\* and its output lines, or an exception (yt-dlp cannot be started).
Completed(returncode, stdout) ==
  [exc |-> "", returncode |-> returncode, stdout |-> stdout]

RunRaises(e) == [exc |-> e, returncode |-> 0 - 1, stdout |-> <<>>]

RECURSIVE ParseVideos_StopAtBadLine(_)
\* A parsing loop that ends at the first line json.loads rejects.
ParseVideos_StopAtBadLine(lines) ==
  IF lines = <<>> THEN <<>>
  ELSE IF Head(lines).kind = "json"
    THEN <<Head(lines).video>> \o ParseVideos_StopAtBadLine(Tail(lines))
  ELSE IF Head(lines).kind = "empty"
    THEN ParseVideos_StopAtBadLine(Tail(lines))
    ELSE <<>>

RECURSIVE ParseVideos(_)
\* for line in stdout.split('\n'): a line that is empty or is no JSON is
\* skipped, the others are the videos, in output order.
ParseVideos(lines) ==
  IF lines = <<>> THEN <<>>
  ELSE IF Head(lines).kind = "json"
    THEN <<Head(lines).video>> \o ParseVideos(Tail(lines))
    ELSE ParseVideos(Tail(lines))

\* The tolerance of the duration comparison, in seconds.
Tolerance == 5

\* abs(video_duration - target_seconds) with the dict built from one video;
\* the subtraction raises TypeError on a duration that is null.
VideoResult(video, target_seconds, match, search_query) ==
  LET video_duration == DictGet(video, "duration", PyInt(0)) IN
  IF video_duration.type # "int" THEN Raise("TypeError")
  ELSE Ret(ResultDict(DictGet(video, "webpage_url", EmptyStr),
                      DictGet(video, "title", Unknown),
                      DurationStr(video_duration),
                      DictGet(video, "uploader", Unknown),
                      match,
                      Abs(video_duration.n - target_seconds),
                      search_query))

\* "If no duration match found, return the first result with a flag".
FirstVideoFallback(videos, target_seconds, search_query) ==
  VideoResult(videos[1], target_seconds, FALSE, search_query)

\* Another selection: of the videos within the tolerance, the closest one.
MatchLoop_Closest(videos, k, target_seconds, search_query) ==
  LET within == {j \in k..Len(videos) :
                   LET r == VideoResult(videos[j], target_seconds, TRUE, search_query) IN
                   r.exc = "" /\ r.val.duration_difference.n <= Tolerance}
      diff(j) == VideoResult(videos[j], target_seconds, TRUE,
                             search_query).val.duration_difference.n IN
  IF within = {} THEN FirstVideoFallback(videos, target_seconds, search_query)
  ELSE VideoResult(videos[CHOOSE j \in within :
                            \A i \in within :
                              diff(j) < diff(i) \/ (diff(j) = diff(i) /\ j <= i)],
                   target_seconds, TRUE, search_query)

RECURSIVE MatchLoop(_, _, _, _)
\* for video in videos: return the first one within the tolerance.
MatchLoop(videos, k, target_seconds, search_query) ==
  IF k > Len(videos) THEN FirstVideoFallback(videos, target_seconds, search_query)
  ELSE LET r == VideoResult(videos[k], target_seconds, TRUE, search_query) IN
    IF r.exc # "" THEN r
    ELSE IF r.val.duration_difference.n <= Tolerance THEN r
    ELSE MatchLoop(videos, k + 1, target_seconds, search_query)

\* The try body of youtube_search.search_youtube_track, on the result of the
\* subprocess.
syt_body(title, artist, target_duration, result) ==
  LET search_query == title IN
  IF result.exc # "" THEN Raise(result.exc)       \* subprocess.run raises
  ELSE IF result.returncode # 0 THEN Ret(NoneResult)
  ELSE LET videos == ParseVideos(result.stdout) IN
    IF videos = <<>> THEN Ret(NoneResult)
    ELSE LET target_seconds == duration_to_seconds(target_duration) IN
      IF target_seconds.exc # "" THEN target_seconds
      ELSE MatchLoop(videos, 1, target_seconds.val, search_query)

\* except Exception: return None
search_youtube_track(title, artist, target_duration, result) ==
  LET r == syt_body(title, artist, target_duration, result) IN
  IF r.exc # "" THEN NoneResult ELSE r.val

YTS_VideoResult(video, target_seconds, match, search_query) ==
  LET video_duration == DictGet(video, "duration", PyInt(0)) IN
  IF video_duration.type # "int" THEN Raise("TypeError")
  ELSE Ret(ResultDict(DictGet(video, "webpage_url", EmptyStr),
                      DictGet(video, "title", Unknown),
                      DurationStr(video_duration),
                      DictGet(video, "uploader", Unknown),
                      match,
                      Abs(video_duration.n - target_seconds),
                      search_query))

YTS_FirstVideoFallback(videos, target_seconds, search_query) ==
  YTS_VideoResult(videos[1], target_seconds, FALSE, search_query)

RECURSIVE YTS_MatchLoop(_, _, _, _)
YTS_MatchLoop(videos, k, target_seconds, search_query) ==
  IF k > Len(videos)
    THEN YTS_FirstVideoFallback(videos, target_seconds, search_query)
  ELSE LET r == YTS_VideoResult(videos[k], target_seconds, TRUE, search_query) IN
    IF r.exc # "" THEN r
    ELSE IF r.val.duration_difference.n <= Tolerance THEN r
    ELSE YTS_MatchLoop(videos, k + 1, target_seconds, search_query)

\* The try body of utils.YouTubeSearcher.search_youtube_track.
yts_syt_body(title, artist, target_duration, result) ==
  LET search_query == title IN
  IF result.exc # "" THEN Raise(result.exc)       \* subprocess.run raises
  ELSE IF result.returncode # 0 THEN Ret(NoneResult)
  ELSE LET videos == ParseVideos(result.stdout) IN
    IF videos = <<>> THEN Ret(NoneResult)
    ELSE LET target_seconds == YTS_duration_to_seconds(target_duration) IN
      IF target_seconds.exc # "" THEN target_seconds
      ELSE YTS_MatchLoop(videos, 1, target_seconds.val, search_query)

\* except Exception: return None
YTS_search_youtube_track(title, artist, target_duration, result) ==
  LET r == yts_syt_body(title, artist, target_duration, result) IN
  IF r.exc # "" THEN NoneResult ELSE r.val

-----------------------------------------------------------------------------
(* One iteration of each search driver *)

\* track.update(youtube_result)
UpdateWithResult(t, r) ==
  [t EXCEPT !["youtube_url"] = r.youtube_url,
            !["youtube_title"] = r.youtube_title,
            !["youtube_duration"] = r.youtube_duration,
            !["youtube_channel"] = r.youtube_channel,
            !["duration_match"] = r.duration_match,
            !["duration_difference"] = r.duration_difference,
            !["search_query"] = r.search_query]

\* track.update({... None ..., 'search_query': query})
UpdateNoResult(t, query) ==
  [t EXCEPT !["youtube_url"] = PyNone,
            !["youtube_title"] = PyNone,
            !["youtube_duration"] = PyNone,
            !["youtube_channel"] = PyNone,
            !["duration_match"] = PyBool(FALSE),
            !["duration_difference"] = PyNone,
            !["search_query"] = query]

\* youtube_search.main, "if youtube_result: ... else: ...": a result dict is
\* truthy, None is not.
main_update(t, r) ==
  IF ~r.none THEN UpdateWithResult(t, r)
  ELSE UpdateNoResult(t, PyStr(t["artist"].s \o <<" ">> \o t["title"].s))

\* spotify_youtube_search.main, the same branch.
spotify_main_update(t, r) ==
  IF ~r.none THEN UpdateWithResult(t, r)
  ELSE UpdateNoResult(t, t["title"])

\* A slip in search_and_update_track: the difference of a found video is
\* never stored.
search_and_update_track_NoDifference(t, r) ==
  IF ~r.none
    THEN [UpdateWithResult(t, r) EXCEPT !["duration_difference"] = PyNone]
    ELSE UpdateNoResult(t, t["title"])

\* YouTubeSearcher.search_and_update_track, the assignments to the Track.
search_and_update_track(t, r) ==
  IF ~r.none THEN
    [t EXCEPT !["youtube_url"] = r.youtube_url,
              !["youtube_title"] = r.youtube_title,
              !["youtube_duration"] = r.youtube_duration,
              !["youtube_channel"] = r.youtube_channel,
              !["duration_match"] = r.duration_match,
              !["duration_difference"] = r.duration_difference,
              !["search_query"] = r.search_query]
  ELSE
    [t EXCEPT !["youtube_url"] = PyNone,
              !["youtube_title"] = PyNone,
              !["youtube_duration"] = PyNone,
              !["youtube_channel"] = PyNone,
              !["duration_match"] = PyBool(FALSE),
              !["duration_difference"] = PyNone,
              !["search_query"] = t["title"]]

\* The number of output lines of one search ("ytsearch5" asks for five).
MaxLines == 3

FullVideo(d) ==
  [k \in VideoKeys |->
     CASE k = "duration" -> d
       [] k = "title" -> PyStr(<<"v">>)
       [] k = "webpage_url" -> PyStr(<<"u">>)
       [] k = "uploader" -> PyStr(<<"c">>)]

\* The durations a video reports: none (the key missing), null (a live
\* stream), or a number of seconds.
VideoDurations ==
  {Absent, PyNone, PyInt(0), PyInt(198), PyInt(203), PyInt(205), PyInt(206)}

Videos ==
  {FullVideo(d) : d \in VideoDurations}
    \cup {[FullVideo(PyInt(203)) EXCEPT !["uploader"] = PyNone],
          [FullVideo(PyInt(203)) EXCEPT !["webpage_url"] = PyNone],
          [k \in VideoKeys |-> IF k = "duration" THEN PyInt(203) ELSE Absent]}

\* One line of the output: a JSON object, a line json.loads rejects, or an
\* empty line.
OutputLines ==
  {[kind |-> "json", video |-> v] : v \in Videos}
    \cup {[kind |-> "garbage", video |-> FullVideo(Absent)],
          [kind |-> "empty", video |-> FullVideo(Absent)]}

\* The sequences of length k over S.
SeqsOfLen(S, k) == [1..k -> S]

SeqsUpTo(S, k) == UNION {SeqsOfLen(S, j) : j \in 0..k}

\* What subprocess.run does: it raises, or it returns a failed command or the
\* output lines of a command that succeeded.
ProcResults ==
  {RunRaises("FileNotFoundError"), Completed(1, <<>>)}
    \cup {Completed(0, w) : w \in SeqsUpTo(OutputLines, MaxLines)}

NoProc == Completed(0 - 1, <<>>)

Drivers == {"youtube_search.main", "spotify_youtube_search.main", "utils"}

\* The duration of a record: "3:20", "0:03", a str with no colon, or (in a
\* record read from JSON) null.
TrackDurations(d) ==
  {PyStr(<<"3", ":", "2", "0">>), PyStr(<<"0", ":", "0", "3">>), PyStr(<<"x">>)}
    \cup (IF d = "youtube_search.main" THEN {PyNone} ELSE {})

\* A record as its driver first holds it: a dict read from
\* extracted_tracks.json, a dict built from one line of spotify_track.csv, or
\* a Track built by load_spotify_csv with the defaults of the dataclass.
FreshTrack(d, duration) ==
  [f \in Fields |->
     CASE f = "title" -> PyStr(<<"t">>)
       [] f = "artist" -> PyStr(<<"a">>)
       [] f = "duration" -> duration
       [] f = "track_number" -> PyInt(1)
       [] f = "url" ->
            IF d = "youtube_search.main" THEN PyStr(<<"p">>)
            ELSE IF d = "utils" THEN PyNone ELSE Absent
       [] f = "source" ->
            IF d = "youtube_search.main" THEN Absent
            ELSE PyStr(<<"s", "p", "o", "t", "i", "f", "y">>)
       [] f = "duration_match" ->
            IF d = "utils" THEN PyBool(FALSE) ELSE Absent
       [] OTHER -> IF d = "utils" THEN PyNone ELSE Absent]

InitSearch ==
  /\ driver \in Drivers
  /\ track \in {FreshTrack(driver, dur) : dur \in TrackDurations(driver)}
  /\ proc = NoProc
  /\ youtube_result = NoneResult
  /\ search_pc = "fresh"
  /\ IdleDuration
  /\ IdleJson
  /\ IdleCsv
  /\ IdlePipeline

\* youtube_search.main, one iteration of its loop.
Iterate_youtube_search_main ==
  /\ search_pc = "fresh"
  /\ driver = "youtube_search.main"
  /\ \E result \in ProcResults :
       LET r == search_youtube_track(track["title"], track["artist"],
                                     track["duration"], result) IN
       /\ proc' = result
       /\ youtube_result' = r
       /\ track' = main_update(track, r)
  /\ search_pc' = "enriched"
  /\ UNCHANGED <<driver, durationVars, jsonVars, csvVars, pipelineVars>>

\* spotify_youtube_search.main, one iteration of its loop.
Iterate_spotify_main ==
  /\ search_pc = "fresh"
  /\ driver = "spotify_youtube_search.main"
  /\ \E result \in ProcResults :
       LET r == search_youtube_track(track["title"], track["artist"],
                                     track["duration"], result) IN
       /\ proc' = result
       /\ youtube_result' = r
       /\ track' = spotify_main_update(track, r)
  /\ search_pc' = "enriched"
  /\ UNCHANGED <<driver, durationVars, jsonVars, csvVars, pipelineVars>>

\* YouTubeSearcher.search_and_update_track on one Track.
Call_search_and_update_track ==
  /\ search_pc = "fresh"
  /\ driver = "utils"
  /\ \E result \in ProcResults :
       LET r == YTS_search_youtube_track(track["title"], track["artist"],
                                         track["duration"], result) IN
       /\ proc' = result
       /\ youtube_result' = r
       /\ track' = search_and_update_track(track, r)
  /\ search_pc' = "enriched"
  /\ UNCHANGED <<driver, durationVars, jsonVars, csvVars, pipelineVars>>

NextSearch ==
  \/ Iterate_youtube_search_main
  \/ Iterate_spotify_main
  \/ Call_search_and_update_track

SpecSearch == InitSearch /\ [][NextSearch]_vars

-----------------------------------------------------------------------------
(* Properties of the selection and of the enriched record *)

Enriched == search_pc = "enriched"

\* The candidates of the selection: the parsed videos, in search order.
Candidates == ParseVideos(proc.stdout)

\* The selection ran on a non-empty list of candidates with a target duration.
SelectionRan ==
  /\ Enriched
  /\ proc.returncode = 0
  /\ Candidates # <<>>
  /\ track["duration"].type = "str"

\* The target of the record in seconds; a target that is no "M:SS" counts 0.
TargetSeconds ==
  LET chars == track["duration"].s IN
  IF IsMSS(chars) THEN ExpectedMSS(chars)
  ELSE IF IsHMMSS(chars) THEN ExpectedHMMSS(chars) ELSE 0

\* A candidate counts as within the tolerance when it reports a number of
\* seconds at most 5 from the target; one that reports no duration at all is
\* compared as 0 seconds, and one that reports null has no seconds to compare.
HasSeconds(v) == v["duration"] = Absent \/ v["duration"].type = "int"

SecondsOf(v) == IF v["duration"] = Absent THEN 0 ELSE v["duration"].n

DifferenceOf(v) == Abs(SecondsOf(v) - TargetSeconds)

Within(v) == HasSeconds(v) /\ DifferenceOf(v) <= 5

WithinAt == {k \in 1..Len(Candidates) : Within(Candidates[k])}

FirstWithin == CHOOSE k \in WithinAt : \A j \in WithinAt : k <= j

\* The returned dict describes candidate v.
Describes(r, v) ==
  /\ ~r.none
  /\ r.youtube_url = DictGet(v, "webpage_url", EmptyStr)
  /\ r.youtube_title = DictGet(v, "title", Unknown)
  /\ r.youtube_channel = DictGet(v, "uploader", Unknown)

\* C1: on a non-empty list of candidates the selection returns the first
\* candidate, in search order, whose difference from the target is at most 5,
\* with duration_match true; when no candidate is within 5 seconds it returns
\* the first candidate of the list with duration_match false.
C1_FirstWithinElseFirst ==
  SelectionRan =>
    IF WithinAt # {}
      THEN /\ Describes(youtube_result, Candidates[FirstWithin])
           /\ youtube_result.duration_match = PyBool(TRUE)
           /\ youtube_result.duration_difference
                = PyInt(DifferenceOf(Candidates[FirstWithin]))
      ELSE /\ Describes(youtube_result, Candidates[1])
           /\ youtube_result.duration_match = PyBool(FALSE)

\* No candidate up to the returned one reports a null duration.
NoNullDuration == \A k \in 1..Len(Candidates) : HasSeconds(Candidates[k])

\* C1 as far as the code delivers it: when every candidate reports a number
\* of seconds or no duration at all.
C1_WithoutNullDurations ==
  (SelectionRan /\ NoNullDuration) =>
    IF WithinAt # {}
      THEN /\ Describes(youtube_result, Candidates[FirstWithin])
           /\ youtube_result.duration_match = PyBool(TRUE)
           /\ youtube_result.duration_difference
                = PyInt(DifferenceOf(Candidates[FirstWithin]))
      ELSE /\ Describes(youtube_result, Candidates[1])
           /\ youtube_result.duration_match = PyBool(FALSE)
           /\ youtube_result.duration_difference
                = PyInt(DifferenceOf(Candidates[1]))

Matched ==
  Enriched /\ ~youtube_result.none /\ youtube_result.duration_match = PyBool(TRUE)

\* C2 as stated: the returned match has the minimum difference of all the
\* candidates.
C2_ReturnsClosest ==
  Matched =>
    \A k \in 1..Len(Candidates) :
      HasSeconds(Candidates[k]) =>
        youtube_result.duration_difference.n <= DifferenceOf(Candidates[k])

\* C2, amended: a returned match is the first candidate, in search order,
\* within the 5-second tolerance; no earlier candidate is within it, and a
\* later one may be closer.
C2_ReturnsFirstWithin ==
  Matched =>
    /\ WithinAt # {}
    /\ Describes(youtube_result, Candidates[FirstWithin])
    /\ youtube_result.duration_difference
         = PyInt(DifferenceOf(Candidates[FirstWithin]))
    /\ youtube_result.youtube_duration
         = DurationStr(DictGet(Candidates[FirstWithin], "duration", PyInt(0)))

\* Two candidates within the tolerance, the returned first one (203 s for a
\* target of 200 s) further from the target than the second (198 s).
C2_Witness ==
  /\ Matched
  /\ Cardinality(WithinAt) >= 2
  /\ youtube_result.duration_difference = PyInt(3)
  /\ \E k \in WithinAt : DifferenceOf(Candidates[k]) = 2

Present(v) == v.type \notin {"absent", "NoneType"}

MatchedFields ==
  {"youtube_url", "youtube_title", "youtube_duration", "youtube_channel",
   "duration_difference", "search_query"}

\* C5 as stated: the six matched-video fields of a record are all present or
\* all absent together, before and after the search.
C5_AllOrNone ==
  search_pc \in {"fresh", "enriched"} =>
    \/ \A f \in MatchedFields : Present(track[f])
    \/ \A f \in MatchedFields : ~Present(track[f])

\* C5, amended: youtube_duration and duration_difference are present
\* together, exactly in a record enriched by a search that returned a video;
\* where they are absent, youtube_url, youtube_title and youtube_channel are
\* absent too, and where they are present each of these three is present
\* unless the search output holds null for it.  search_query stands apart:
\* absent in a fresh record, present after every search, one that returned
\* nothing included.
C5_MatchedFieldsTogether ==
  search_pc \in {"fresh", "enriched"} =>
    /\ Present(track["youtube_duration"]) <=> Present(track["duration_difference"])
    /\ Present(track["youtube_duration"]) <=> (Enriched /\ ~youtube_result.none)
    /\ ~Present(track["youtube_duration"]) =>
         \A f \in {"youtube_url", "youtube_title", "youtube_channel"} :
           ~Present(track[f])
    /\ Present(track["youtube_duration"]) =>
         /\ Present(track["youtube_url"])
              \/ \E k \in 1..Len(Candidates) : Candidates[k]["webpage_url"] = PyNone
         /\ Present(track["youtube_title"])
              \/ \E k \in 1..Len(Candidates) : Candidates[k]["title"] = PyNone
         /\ Present(track["youtube_channel"])
              \/ \E k \in 1..Len(Candidates) : Candidates[k]["uploader"] = PyNone
    /\ Present(track["search_query"]) <=> Enriched

\* A record enriched by a search that returned nothing: the query is stored,
\* the five other fields are null.
C5_Witness ==
  /\ Enriched
  /\ youtube_result.none
  /\ Present(track["search_query"])
  /\ \A f \in MatchedFields \ {"search_query"} : track[f] = PyNone

-----------------------------------------------------------------------------
(* The Track dataclass and the JSON file of records *)

FieldOrder ==
  <<"title", "artist", "duration", "source", "url", "track_number",
    "youtube_url", "youtube_title", "youtube_duration", "youtube_channel",
    "duration_match", "duration_difference", "search_query">>

RequiredFields == {"title", "artist", "duration"}

\* The defaults of the dataclass: False for duration_match, None otherwise.
TrackDefault(f) == IF f = "duration_match" THEN PyBool(FALSE) ELSE PyNone

\* Track(**d): the keys of d as keyword arguments; a missing required
\* argument is a TypeError, a missing optional one takes its default.
TrackFromDict(d) ==
  IF \E f \in RequiredFields : d[f] = Absent THEN Raise("TypeError")
  ELSE Ret([f \in Fields |-> IF d[f] = Absent THEN TrackDefault(f) ELSE d[f]])

\* asdict(track): every field of the dataclass, by name.
asdict(t) == [f \in Fields |-> t[f]]

\* A JSON value as the file holds it: null, true, false, a number or a string.
JsonEncode(v) ==
  CASE v.type = "NoneType" -> [j |-> "null", s |-> <<>>, n |-> 0]
    [] v.type = "bool" ->
         [j |-> IF v.n = 1 THEN "true" ELSE "false", s |-> <<>>, n |-> 0]
    [] v.type = "int" -> [j |-> "number", s |-> <<>>, n |-> v.n]
    [] v.type = "str" -> [j |-> "string", s |-> v.s, n |-> 0]

JsonDecode(x) ==
  CASE x.j = "null" -> PyNone
    [] x.j = "true" -> PyBool(TRUE)
    [] x.j = "false" -> PyBool(FALSE)
    [] x.j = "number" -> PyInt(x.n)
    [] x.j = "string" -> PyStr(x.s)

RECURSIVE JsonMembers(_, _)
\* The members of one JSON object: a key and a value for each key the dict
\* holds, in the order of the keys.
JsonMembers(d, k) ==
  IF k > Len(FieldOrder) THEN <<>>
  ELSE (IF d[FieldOrder[k]] = Absent THEN <<>>
        ELSE <<[key |-> FieldOrder[k], value |-> JsonEncode(d[FieldOrder[k]])]>>)
         \o JsonMembers(d, k + 1)

\* json.dump(data, file): an array of objects.
JsonDump(data) == [k \in 1..Len(data) |-> JsonMembers(data[k], 1)]

\* One object of the array as a dict.
JsonObjectToDict(members) ==
  [f \in Fields |->
     IF \E k \in 1..Len(members) : members[k].key = f
       THEN JsonDecode(members[CHOOSE k \in 1..Len(members) :
                                 members[k].key = f].value)
       ELSE Absent]

\* json.load(file)
JsonLoad(text) == [k \in 1..Len(text) |-> JsonObjectToDict(text[k])]

\* FileManager.save_tracks_json: the text written to the file.
save_tracks_json(tracks) ==
  JsonDump([k \in 1..Len(tracks) |-> asdict(tracks[k])])

\* A loader that builds each Track from the required fields alone.
load_tracks_json_RequiredOnly(text) ==
  LET data == JsonLoad(text) IN
  Ret([k \in 1..Len(data) |->
         [f \in Fields |->
            IF f \in RequiredFields THEN data[k][f] ELSE TrackDefault(f)]])

\* FileManager.load_tracks_json: [Track(**track) for track in data].
load_tracks_json(text) ==
  LET data == JsonLoad(text)
      built == [k \in 1..Len(data) |-> TrackFromDict(data[k])] IN
  IF \E k \in 1..Len(data) : built[k].exc # "" THEN Raise("TypeError")
  ELSE Ret([k \in 1..Len(data) |-> built[k].val])

\* The number of records of a saved list.
MaxRecords == 2

OneVideo(d) == Completed(0, <<[kind |-> "json", video |-> FullVideo(d)]>>)

\* Track records as the pipeline holds them: built by load_spotify_csv, and
\* enriched by a search that matched, fell back, or returned nothing.
SampleTracks ==
  {FreshTrack("utils", dur) : dur \in TrackDurations("utils")}
    \cup {search_and_update_track(
            FreshTrack("utils", PyStr(<<"3", ":", "2", "0">>)),
            YTS_search_youtube_track(PyStr(<<"t">>), PyStr(<<"a">>),
                                     PyStr(<<"3", ":", "2", "0">>), result)) :
            result \in {OneVideo(PyInt(203)), OneVideo(PyInt(206)),
                        OneVideo(Absent), Completed(1, <<>>)}}

InitJson ==
  /\ json_tracks \in SeqsUpTo(SampleTracks, MaxRecords)
  /\ json_file = <<>>
  /\ json_loaded = Pending
  /\ json_pc = "new"
  /\ IdleDuration
  /\ IdleSearch
  /\ IdleCsv
  /\ IdlePipeline

Call_save_tracks_json ==
  /\ json_pc = "new"
  /\ json_file' = save_tracks_json(json_tracks)
  /\ json_pc' = "saved"
  /\ UNCHANGED <<json_tracks, json_loaded, durationVars, searchVars, csvVars, pipelineVars>>

Call_load_tracks_json ==
  /\ json_pc = "saved"
  /\ json_loaded' = load_tracks_json(json_file)
  /\ json_pc' = "loaded"
  /\ UNCHANGED <<json_tracks, json_file, durationVars, searchVars, csvVars, pipelineVars>>

NextJson == Call_save_tracks_json \/ Call_load_tracks_json

SpecJson == InitJson /\ [][NextJson]_vars

\* C9: save_tracks_json followed by load_tracks_json on the same file returns
\* a list of the same length and order in which every record has all thirteen
\* fields equal to the original.
C9_JsonRoundTrip ==
  json_pc = "loaded" =>
    /\ json_loaded.exc = ""
    /\ Len(json_loaded.val) = Len(json_tracks)
    /\ \A k \in 1..Len(json_tracks) :
         \A f \in Fields : json_loaded.val[k][f] = json_tracks[k][f]

\* Two records came back, the second one enriched with a matched video.
C9_Witness ==
  /\ json_pc = "loaded"
  /\ json_loaded.exc = ""
  /\ Len(json_loaded.val) = 2
  /\ json_loaded.val[1]["youtube_url"] = PyNone
  /\ json_loaded.val[2]["youtube_url"] = PyStr(<<"u">>)
  /\ json_loaded.val[2]["duration_match"] = PyBool(TRUE)
  /\ json_loaded.val[2]["duration_difference"] = PyInt(3)

-----------------------------------------------------------------------------
(* CSV lines: the csv module's writer and the line-splitting loader *)

Quote == "\""

RECURSIVE DoubleQuotes(_)
DoubleQuotes(chars) ==
  IF chars = <<>> THEN <<>>
  ELSE (IF Head(chars) = Quote THEN <<Quote, Quote>> ELSE <<Head(chars)>>)
         \o DoubleQuotes(Tail(chars))

\* One field as csv.DictWriter writes it (QUOTE_MINIMAL): a field that holds
\* the delimiter or the quote character is quoted, its quotes doubled.
CsvField(chars) ==
  IF Contains(chars, ",") \/ Contains(chars, Quote)
    THEN <<Quote>> \o DoubleQuotes(chars) \o <<Quote>>
    ELSE chars

RECURSIVE Join(_, _)
\* sep.join(parts)
Join(parts, sep) ==
  IF parts = <<>> THEN <<>>
  ELSE IF Len(parts) = 1 THEN parts[1]
  ELSE parts[1] \o <<sep>> \o Join(Tail(parts), sep)

\* writer.writerow(row): the fields, comma-separated.
CsvRow(fields) == Join([k \in 1..Len(fields) |-> CsvField(fields[k])], ",")

RECURSIVE LStrip(_)
LStrip(chars) ==
  IF chars # <<>> /\ Head(chars) = " " THEN LStrip(Tail(chars)) ELSE chars

RECURSIVE RStrip(_)
RStrip(chars) ==
  IF chars # <<>> /\ chars[Len(chars)] = " "
    THEN RStrip(SubSeq(chars, 1, Len(chars) - 1))
    ELSE chars

\* s.strip(): s without its leading and trailing blanks (the line end that
\* readlines keeps is stripped with them).
Strip(chars) == RStrip(LStrip(chars))

Spotify == PyStr(<<"s", "p", "o", "t", "i", "f", "y">>)

\* One line of the file as FileManager.load_spotify_csv reads it: nothing
\* when it has fewer than three parts, else title, artist, duration.
csv_line_track(line, i) ==
  LET parts == Split(Strip(line), ",") IN
  IF Len(parts) >= 3 THEN
    LET title == parts[1]
        duration == parts[Len(parts)]
        artist == Strip(Join(SubSeq(parts, 2, Len(parts) - 1), ",")) IN
    <<[f \in Fields |->
         CASE f = "track_number" -> PyInt(i)
           [] f = "title" -> PyStr(title)
           [] f = "artist" -> PyStr(artist)
           [] f = "duration" -> PyStr(duration)
           [] f = "source" -> Spotify
           [] OTHER -> TrackDefault(f)]>>
  ELSE <<>>

RECURSIVE load_spotify_csv_from(_, _)
load_spotify_csv_from(lines, i) ==
  IF i > Len(lines) THEN <<>>
  ELSE csv_line_track(lines[i], i - 1) \o load_spotify_csv_from(lines, i + 1)

\* FileManager.load_spotify_csv: for i, line in enumerate(lines[1:], 1).
load_spotify_csv(lines) == load_spotify_csv_from(lines, 2)

\* The same line in spotify_youtube_search.main, which builds a dict.
spotify_main_line_track(line, i) ==
  LET parts == Split(Strip(line), ",") IN
  IF Len(parts) >= 3 THEN
    LET title == parts[1]
        duration == parts[Len(parts)]
        artist == Strip(Join(SubSeq(parts, 2, Len(parts) - 1), ",")) IN
    <<[f \in Fields |->
         CASE f = "track_number" -> PyInt(i)
           [] f = "title" -> PyStr(title)
           [] f = "artist" -> PyStr(artist)
           [] f = "duration" -> PyStr(duration)
           [] f = "source" -> Spotify
           [] OTHER -> Absent]>>
  ELSE <<>>

RECURSIVE spotify_main_load_from(_, _)
spotify_main_load_from(lines, i) ==
  IF i > Len(lines) THEN <<>>
  ELSE spotify_main_line_track(lines[i], i - 1)
         \o spotify_main_load_from(lines, i + 1)

\* spotify_youtube_search.main, the loading of spotify_track.csv.
spotify_main_load(lines) == spotify_main_load_from(lines, 2)

\* The length of a title and of an artist.
MaxFieldLen == 2

CsvAlphabet == {"a", ",", " ", Quote}

CsvHeader == <<"h">>

InitCsv ==
  /\ csv_track \in
       [title : StringsUpTo(CsvAlphabet, MaxFieldLen),
        artist : StringsUpTo(CsvAlphabet, MaxFieldLen),
        duration : {<<"3", ":", "2", "0">>}]
  /\ csv_file = <<>>
  /\ csv_loaded = <<>>
  /\ csv_pc = "new"
  /\ IdleDuration
  /\ IdleSearch
  /\ IdleJson
  /\ IdlePipeline

\* The record's title, artist and duration written as one line, under a header.
WriteCsvLine ==
  /\ csv_pc = "new"
  /\ csv_file' = <<CsvHeader,
                   CsvRow(<<csv_track.title, csv_track.artist, csv_track.duration>>)>>
  /\ csv_pc' = "written"
  /\ UNCHANGED <<csv_track, csv_loaded, durationVars, searchVars, jsonVars, pipelineVars>>

Call_load_spotify_csv ==
  /\ csv_pc = "written"
  /\ csv_loaded' = load_spotify_csv(csv_file)
  /\ csv_pc' = "loaded"
  /\ UNCHANGED <<csv_track, csv_file, durationVars, searchVars, jsonVars, pipelineVars>>

Load_spotify_main ==
  /\ csv_pc = "written"
  /\ csv_loaded' = spotify_main_load(csv_file)
  /\ csv_pc' = "loaded"
  /\ UNCHANGED <<csv_track, csv_file, durationVars, searchVars, jsonVars, pipelineVars>>

NextCsv == WriteCsvLine \/ Call_load_spotify_csv \/ Load_spotify_main

SpecCsv == InitCsv /\ [][NextCsv]_vars

CsvSame ==
  /\ Len(csv_loaded) = 1
  /\ csv_loaded[1]["title"] = PyStr(csv_track.title)
  /\ csv_loaded[1]["artist"] = PyStr(csv_track.artist)
  /\ csv_loaded[1]["duration"] = PyStr(csv_track.duration)

\* C10: a record's title, artist and duration written as one CSV line and
\* loaded back with the CSV loader are the same title, artist and duration,
\* also when the title or the artist holds a comma.
C10_CsvRoundTrip == csv_pc = "loaded" => CsvSame

PlainField(chars) ==
  /\ ~Contains(chars, ",")
  /\ ~Contains(chars, Quote)
  /\ Strip(chars) = chars

\* The part of C10 that the code does deliver: a record whose title and
\* artist hold no comma, no quote and no blank at either end comes back as
\* written.
C10_PlainFieldsRoundTrip ==
  (csv_pc = "loaded" /\ PlainField(csv_track.title) /\ PlainField(csv_track.artist))
    => CsvSame

-----------------------------------------------------------------------------
(* The scripts, run in order in one working directory *)

TRACKLIST_TXT == "data/tracklist.txt"
EXTRACTED_TRACKS_CSV == "data/extracted_tracks.csv"
EXTRACTED_TRACKS_JSON == "extracted_tracks.json"
TRACKS_WITH_YOUTUBE_JSON == "tracks_with_youtube.json"
TRACKS_WITH_YOUTUBE_CSV == "tracks_with_youtube.csv"
DATA_TRACKS_WITH_YOUTUBE_JSON == "data/tracks_with_youtube.json"

Paths ==
  {TRACKLIST_TXT, EXTRACTED_TRACKS_CSV, EXTRACTED_TRACKS_JSON,
   TRACKS_WITH_YOUTUBE_JSON, TRACKS_WITH_YOUTUBE_CSV,
   DATA_TRACKS_WITH_YOUTUBE_JSON}

NoFile == [kind |-> "none", rows |-> <<>>]
TextFile(lines) == [kind |-> "text", rows |-> lines]
CsvFile(lines) == [kind |-> "csv", rows |-> lines]
JsonFile(data) == [kind |-> "json", rows |-> JsonDump(data)]

ErrorStr == PyStr(<<"E", "r", "r", "o", "r">>)

\* extract_track_info: the fields found in the page, or, on any exception,
\* the record of 'Error's.  page is what the request and the parsing gave.
extract_track_info(url, page) ==
  [f \in Fields |->
     CASE f = "title" -> IF page.exc # "" THEN ErrorStr ELSE page.val.title
       [] f = "artist" -> IF page.exc # "" THEN ErrorStr ELSE page.val.artist
       [] f = "duration" -> IF page.exc # "" THEN ErrorStr ELSE page.val.duration
       [] f = "url" -> url
       [] OTHER -> Absent]

\* str(v) as the csv writer takes it; None and a missing key give ''.
CsvValue(v) ==
  CASE v.type = "str" -> v.s
    [] v.type = "int" -> IntToStr(v.n)
    [] v.type = "bool" ->
         IF v.n = 1 THEN <<"T", "r", "u", "e">> ELSE <<"F", "a", "l", "s", "e">>
    [] OTHER -> <<>>

\* csv.DictWriter(csvfile, fieldnames).writerow(d): a key of d that is no
\* field name is a ValueError.
DictWriterRow(d, fieldnames) ==
  IF \E f \in Fields : d[f] # Absent /\ \A k \in 1..Len(fieldnames) : fieldnames[k] # f
    THEN Raise("ValueError")
    ELSE Ret(CsvRow([k \in 1..Len(fieldnames) |-> CsvValue(d[fieldnames[k]])]))

ExtractFieldnames == <<"track_number", "title", "artist", "duration", "url">>

\* extract_tracklist.main, "Save to CSV": the header and a row for each track,
\* numbered from 1.
extract_csv(tracks) ==
  <<CsvRow([k \in 1..Len(ExtractFieldnames) |->
              [n \in 1..Len(ExtractFieldnames[k]) |-> "h"]])>>
    \o [k \in 1..Len(tracks) |->
          DictWriterRow([tracks[k] EXCEPT !["track_number"] = PyInt(k)],
                        ExtractFieldnames).val]

SearchFieldnames ==
  <<"track_number", "title", "artist", "duration", "url", "youtube_url",
    "youtube_title", "youtube_duration", "youtube_channel", "duration_match",
    "duration_difference", "search_query">>

\* The events of one iteration of the loop of extract_tracklist.main: the
\* request is made and answered, then time.sleep(1).
extract_iteration_events(k) ==
  <<[loop |-> "extract", ev |-> "call", item |-> k],
    [loop |-> "extract", ev |-> "return", item |-> k],
    [loop |-> "extract", ev |-> "sleep", item |-> k]>>

\* A search loop that does not sleep.
search_iteration_events_NoSleep(k) ==
  <<[loop |-> "search", ev |-> "call", item |-> k],
    [loop |-> "search", ev |-> "return", item |-> k]>>

\* The events of one iteration of the loop of youtube_search.main: the
\* subprocess is run to its end, then time.sleep(1).
search_iteration_events(k) ==
  <<[loop |-> "search", ev |-> "call", item |-> k],
    [loop |-> "search", ev |-> "return", item |-> k],
    [loop |-> "search", ev |-> "sleep", item |-> k]>>

\* The events of one iteration of the loop of download_youtube_to_mp3: the
\* download is run to its end; there is no sleep.
download_iteration_events(k) ==
  <<[loop |-> "download", ev |-> "call", item |-> k],
    [loop |-> "download", ev |-> "return", item |-> k]>>

RECURSIVE youtube_urls_from_MatchedOnly(_, _)
\* A selection that keeps only the records flagged as duration matches.
youtube_urls_from_MatchedOnly(tracks, k) ==
  IF k > Len(tracks) THEN <<>>
  ELSE (IF /\ Truthy(DictGet(tracks[k], "youtube_url", PyNone))
           /\ Truthy(DictGet(tracks[k], "duration_match", PyNone))
          THEN <<tracks[k]["youtube_url"]>> ELSE <<>>)
         \o youtube_urls_from_MatchedOnly(tracks, k + 1)

RECURSIVE youtube_urls_from(_, _)
\* load_beatport_tracks and load_youtube_urls_from_json: the youtube_url of
\* each record that has a truthy one, in order.
youtube_urls_from(tracks, k) ==
  IF k > Len(tracks) THEN <<>>
  ELSE (IF Truthy(DictGet(tracks[k], "youtube_url", PyNone))
          THEN <<tracks[k]["youtube_url"]>> ELSE <<>>)
         \o youtube_urls_from(tracks, k + 1)

RECURSIVE get_youtube_urls_from_tracks_at(_, _)
get_youtube_urls_from_tracks_at(tracks, k) ==
  IF k > Len(tracks) THEN <<>>
  ELSE (IF Truthy(tracks[k]["youtube_url"])
          THEN <<tracks[k]["youtube_url"]>> ELSE <<>>)
         \o get_youtube_urls_from_tracks_at(tracks, k + 1)

\* FileManager.get_youtube_urls_from_tracks:
\* [track.youtube_url for track in tracks if track.youtube_url]
get_youtube_urls_from_tracks(tracks) == get_youtube_urls_from_tracks_at(tracks, 1)

\* The path the download script reads its records from.
DownloadInputPath(script) ==
  IF script = "download_tracks" THEN DATA_TRACKS_WITH_YOUTUBE_JSON
  ELSE TRACKS_WITH_YOUTUBE_JSON

\* The number of URLs of the track list, and of records of a file found in
\* the working directory.
MaxTracks == 2

UrlP == PyStr(<<"p">>)
UrlQ == PyStr(<<"q">>)

TrackList(n) == [k \in 1..n |-> IF k % 2 = 1 THEN UrlP ELSE UrlQ]

\* What the request and the parsing of one page give: the fields, or an
\* exception.
PageResults ==
  {Raise("HTTPError"),
   Ret([title |-> PyStr(<<"t">>), artist |-> PyStr(<<"a">>),
        duration |-> PyStr(<<"3", ":", "2", "0">>)])}

\* A file of records found at the path that youtube_search.main reads.
FoundTracks(n) ==
  [k \in 1..n |->
     FreshTrack("youtube_search.main",
                IF k % 2 = 1 THEN PyStr(<<"3", ":", "2", "0">>) ELSE PyStr(<<"x">>))]

\* A file of enriched records found at a path that a download script reads:
\* a match, a search that returned nothing (youtube_url null), and a fallback
\* whose video reported no webpage_url (youtube_url '').
FoundEnriched ==
  <<main_update(FreshTrack("youtube_search.main", PyStr(<<"3", ":", "2", "0">>)),
                search_youtube_track(PyStr(<<"t">>), PyStr(<<"a">>),
                                     PyStr(<<"3", ":", "2", "0">>),
                                     OneVideo(PyInt(198)))),
    main_update(FreshTrack("youtube_search.main", PyStr(<<"x">>)), NoneResult),
    main_update(FreshTrack("youtube_search.main", PyStr(<<"3", ":", "2", "0">>)),
                search_youtube_track(
                  PyStr(<<"t">>), PyStr(<<"a">>), PyStr(<<"3", ":", "2", "0">>),
                  Completed(0, <<[kind |-> "json",
                                  video |-> [FullVideo(PyInt(206))
                                               EXCEPT !["webpage_url"] = Absent]]>>)))>>

\* What one search of the pipeline returns: a failed command, a video within
\* the tolerance, a video outside it.
PipelineProcResults ==
  {Completed(1, <<>>), OneVideo(PyInt(203)), OneVideo(PyInt(206))}

NoExit == [extract |-> "", search |-> "", download |-> ""]

Init ==
  /\ \E n \in 0..MaxTracks, m \in 0..(MaxTracks + 1) :
       \E found \in {NoFile, JsonFile(FoundEnriched)},
          older \in {NoFile, JsonFile(FoundEnriched)} :
         fs = [p \in Paths |->
                 CASE p = TRACKLIST_TXT -> TextFile(TrackList(n))
                   [] p = EXTRACTED_TRACKS_JSON ->
                        IF m = MaxTracks + 1 THEN NoFile
                        ELSE JsonFile(FoundTracks(m))
                   [] p = DATA_TRACKS_WITH_YOUTUBE_JSON -> found
                   [] p = TRACKS_WITH_YOUTUBE_JSON -> older
                   [] OTHER -> NoFile]
  /\ download_script \in {"download_tracks", "download_all_tracks"}
  /\ pc = "extract_start"
  /\ idx = 1
  /\ ex_urls = <<>>
  /\ ex_tracks = <<>>
  /\ ys_tracks = <<>>
  /\ enhanced_tracks = <<>>
  /\ successful_matches = 0
  /\ dl_urls = <<>>
  /\ successful_downloads = <<>>
  /\ failed_downloads = <<>>
  /\ log = <<>>
  /\ exit_status = NoExit
  /\ IdleDuration
  /\ IdleSearch
  /\ IdleJson
  /\ IdleCsv

otherVars == <<durationVars, searchVars, jsonVars, csvVars>>

\* extract_tracklist.main: the URLs are read from data/tracklist.txt.
extract_main_start ==
  /\ pc = "extract_start"
  /\ ex_urls' = fs[TRACKLIST_TXT].rows
  /\ ex_tracks' = <<>>
  /\ idx' = 1
  /\ pc' = "extract_loop"
  /\ UNCHANGED <<fs, ys_tracks, enhanced_tracks, successful_matches, dl_urls,
                 successful_downloads, failed_downloads, log, exit_status,
                 download_script, otherVars>>

\* A loop that drops the URL whose page could not be read.
extract_main_iterate_SkipFailed ==
  /\ pc = "extract_loop"
  /\ idx <= Len(ex_urls)
  /\ \E page \in PageResults :
       ex_tracks' = IF page.exc # "" THEN ex_tracks
                    ELSE Append(ex_tracks, extract_track_info(ex_urls[idx], page))
  /\ log' = log \o extract_iteration_events(idx)
  /\ idx' = idx + 1
  /\ UNCHANGED <<fs, pc, ex_urls, ys_tracks, enhanced_tracks, successful_matches,
                 dl_urls, successful_downloads, failed_downloads, exit_status,
                 download_script, otherVars>>

\* One iteration: extract_track_info(url), append, sleep.
extract_main_iterate ==
  /\ pc = "extract_loop"
  /\ idx <= Len(ex_urls)
  /\ \E page \in PageResults :
       ex_tracks' = Append(ex_tracks, extract_track_info(ex_urls[idx], page))
  /\ log' = log \o extract_iteration_events(idx)
  /\ idx' = idx + 1
  /\ UNCHANGED <<fs, pc, ex_urls, ys_tracks, enhanced_tracks, successful_matches,
                 dl_urls, successful_downloads, failed_downloads, exit_status,
                 download_script, otherVars>>

\* After the loop: the tracks are printed and written to
\* data/extracted_tracks.csv, and the script ends.
extract_main_save ==
  /\ pc = "extract_loop"
  /\ idx > Len(ex_urls)
  /\ fs' = [fs EXCEPT ![EXTRACTED_TRACKS_CSV] = CsvFile(extract_csv(ex_tracks))]
  /\ exit_status' = [exit_status EXCEPT !.extract = "ok"]
  /\ pc' = "search_start"
  /\ UNCHANGED <<idx, ex_urls, ex_tracks, ys_tracks, enhanced_tracks,
                 successful_matches, dl_urls, successful_downloads,
                 failed_downloads, log, download_script, otherVars>>

\* youtube_search.main: the tracks are loaded from extracted_tracks.json; a
\* file that is not there ends the script with FileNotFoundError.
search_main_start ==
  /\ pc = "search_start"
  /\ IF fs[EXTRACTED_TRACKS_JSON] = NoFile
       THEN /\ exit_status' = [exit_status EXCEPT !.search = "FileNotFoundError"]
            /\ pc' = "download_start"
            /\ UNCHANGED <<ys_tracks, enhanced_tracks, successful_matches, idx>>
       ELSE /\ ys_tracks' = JsonLoad(fs[EXTRACTED_TRACKS_JSON].rows)
            /\ enhanced_tracks' = <<>>
            /\ successful_matches' = 0
            /\ idx' = 1
            /\ pc' = "search_loop"
            /\ UNCHANGED exit_status
  /\ UNCHANGED <<fs, ex_urls, ex_tracks, dl_urls, successful_downloads,
                 failed_downloads, log, download_script, otherVars>>

\* A loop that counts every returned video as a match.
search_main_iterate_CountsEveryResult ==
  /\ pc = "search_loop"
  /\ idx <= Len(ys_tracks)
  /\ \E result \in PipelineProcResults :
       LET t == ys_tracks[idx]
           r == search_youtube_track(t["title"], t["artist"], t["duration"], result) IN
       /\ enhanced_tracks' = Append(enhanced_tracks, main_update(t, r))
       /\ successful_matches' =
            IF ~r.none THEN successful_matches + 1 ELSE successful_matches
  /\ log' = log \o search_iteration_events(idx)
  /\ idx' = idx + 1
  /\ UNCHANGED <<fs, pc, ex_urls, ex_tracks, ys_tracks, dl_urls,
                 successful_downloads, failed_downloads, exit_status,
                 download_script, otherVars>>

\* One iteration: search, update the track, count a match, append, sleep.
search_main_iterate ==
  /\ pc = "search_loop"
  /\ idx <= Len(ys_tracks)
  /\ \E result \in PipelineProcResults :
       LET t == ys_tracks[idx]
           r == search_youtube_track(t["title"], t["artist"], t["duration"], result) IN
       /\ enhanced_tracks' = Append(enhanced_tracks, main_update(t, r))
       /\ successful_matches' =
            IF ~r.none /\ Truthy(r.duration_match)
              THEN successful_matches + 1 ELSE successful_matches
  /\ log' = log \o search_iteration_events(idx)
  /\ idx' = idx + 1
  /\ UNCHANGED <<fs, pc, ex_urls, ex_tracks, ys_tracks, dl_urls,
                 successful_downloads, failed_downloads, exit_status,
                 download_script, otherVars>>

\* The rows of tracks_with_youtube.csv, or the ValueError of the first track
\* that holds a key outside the field names.
search_csv(tracks) ==
  LET rows == [k \in 1..Len(tracks) |-> DictWriterRow(tracks[k], SearchFieldnames)] IN
  IF \E k \in 1..Len(tracks) : rows[k].exc # "" THEN Raise("ValueError")
  ELSE Ret(<<CsvRow([k \in 1..Len(SearchFieldnames) |->
                       [n \in 1..Len(SearchFieldnames[k]) |-> "h"]])>>
             \o [k \in 1..Len(tracks) |-> rows[k].val])

\* After the loop: tracks_with_youtube.json and tracks_with_youtube.csv are
\* written.
search_main_save ==
  /\ pc = "search_loop"
  /\ idx > Len(ys_tracks)
  /\ LET csv == search_csv(enhanced_tracks) IN
       IF csv.exc # ""
         THEN /\ fs' = [fs EXCEPT ![TRACKS_WITH_YOUTUBE_JSON] = JsonFile(enhanced_tracks)]
              /\ exit_status' = [exit_status EXCEPT !.search = csv.exc]
              /\ pc' = "download_start"
         ELSE /\ fs' = [fs EXCEPT ![TRACKS_WITH_YOUTUBE_JSON] = JsonFile(enhanced_tracks),
                                  ![TRACKS_WITH_YOUTUBE_CSV] = CsvFile(csv.val)]
              /\ pc' = "search_summary"
              /\ UNCHANGED exit_status
  /\ UNCHANGED <<idx, ex_urls, ex_tracks, ys_tracks, enhanced_tracks,
                 successful_matches, dl_urls, successful_downloads,
                 failed_downloads, log, download_script, otherVars>>

\* The results summary: successful_matches/len(tracks) divides by zero on an
\* empty list.
search_main_summary ==
  /\ pc = "search_summary"
  /\ exit_status' =
       [exit_status EXCEPT !.search =
          IF Len(ys_tracks) = 0 THEN "ZeroDivisionError" ELSE "ok"]
  /\ log' = IF Len(ys_tracks) = 0 THEN log
            ELSE Append(log, [loop |-> "search", ev |-> "summary", item |-> 0])
  /\ pc' = "download_start"
  /\ UNCHANGED <<fs, idx, ex_urls, ex_tracks, ys_tracks, enhanced_tracks,
                 successful_matches, dl_urls, successful_downloads,
                 failed_downloads, download_script, otherVars>>

\* download_tracks.main (beatport) or download_all_tracks: the URLs are
\* loaded from the JSON file of the script, and download_youtube_to_mp3
\* starts on them.
download_start ==
  /\ pc = "download_start"
  /\ LET file == fs[DownloadInputPath(download_script)] IN
       IF file = NoFile
         THEN /\ exit_status' = [exit_status EXCEPT !.download = "FileNotFoundError"]
              /\ pc' = "finished"
              /\ UNCHANGED <<dl_urls, idx>>
         ELSE /\ dl_urls' = youtube_urls_from(JsonLoad(file.rows), 1)
              /\ idx' = 1
              /\ pc' = "download_loop"
              /\ UNCHANGED exit_status
  /\ successful_downloads' = <<>>
  /\ failed_downloads' = <<>>
  /\ UNCHANGED <<fs, ex_urls, ex_tracks, ys_tracks, enhanced_tracks,
                 successful_matches, log, download_script, otherVars>>

\* A download loop without the try: the first download that raises ends the
\* function.
download_iterate_StopOnFailure ==
  /\ pc = "download_loop"
  /\ idx <= Len(dl_urls)
  /\ \E outcome \in {Ret(0), Raise("DownloadError")} :
       IF outcome.exc = ""
         THEN /\ successful_downloads' = Append(successful_downloads, dl_urls[idx])
              /\ UNCHANGED <<pc, exit_status>>
         ELSE /\ exit_status' = [exit_status EXCEPT !.download = outcome.exc]
              /\ pc' = "finished"
              /\ UNCHANGED successful_downloads
  /\ log' = log \o download_iteration_events(idx)
  /\ idx' = idx + 1
  /\ UNCHANGED <<fs, ex_urls, ex_tracks, ys_tracks, enhanced_tracks,
                 successful_matches, dl_urls, failed_downloads, download_script,
                 otherVars>>

\* One iteration: the download of one URL; a download that raises is caught
\* and recorded.
download_iterate ==
  /\ pc = "download_loop"
  /\ idx <= Len(dl_urls)
  /\ \E outcome \in {Ret(0), Raise("DownloadError")} :
       IF outcome.exc = ""
         THEN /\ successful_downloads' = Append(successful_downloads, dl_urls[idx])
              /\ UNCHANGED failed_downloads
         ELSE /\ failed_downloads' =
                   Append(failed_downloads, <<dl_urls[idx], outcome.exc>>)
              /\ UNCHANGED successful_downloads
  /\ log' = log \o download_iteration_events(idx)
  /\ idx' = idx + 1
  /\ UNCHANGED <<fs, pc, ex_urls, ex_tracks, ys_tracks, enhanced_tracks,
                 successful_matches, dl_urls, exit_status, download_script,
                 otherVars>>

\* After the loop: the download summary.
download_summary ==
  /\ pc = "download_loop"
  /\ idx > Len(dl_urls)
  /\ log' = Append(log, [loop |-> "download", ev |-> "summary", item |-> 0])
  /\ exit_status' = [exit_status EXCEPT !.download = "ok"]
  /\ pc' = "finished"
  /\ UNCHANGED <<fs, idx, ex_urls, ex_tracks, ys_tracks, enhanced_tracks,
                 successful_matches, dl_urls, successful_downloads,
                 failed_downloads, download_script, otherVars>>

Next ==
  \/ extract_main_start
  \/ extract_main_iterate
  \/ extract_main_save
  \/ search_main_start
  \/ search_main_iterate
  \/ search_main_save
  \/ search_main_summary
  \/ download_start
  \/ download_iterate
  \/ download_summary

Spec == Init /\ [][Next]_vars

\* The download loop, once entered, runs on: the interpreter executes the next
\* statement of download_youtube_to_mp3, and each download returns or raises.
FairSpec == Spec /\ WF_<<pc, idx>>(download_iterate \/ download_summary)

-----------------------------------------------------------------------------
(* The two search scripts, each run on its own input file *)

SPOTIFY_TRACK_CSV == "spotify_track.csv"
SPOTIFY_TRACKS_WITH_YOUTUBE_JSON == "spotify_tracks_with_youtube.json"
SPOTIFY_TRACKS_WITH_YOUTUBE_CSV == "spotify_tracks_with_youtube.csv"

SearchPaths ==
  Paths \cup {SPOTIFY_TRACK_CSV, SPOTIFY_TRACKS_WITH_YOUTUBE_JSON,
              SPOTIFY_TRACKS_WITH_YOUTUBE_CSV}

SpotifyFieldnames ==
  <<"track_number", "title", "artist", "duration", "source", "youtube_url",
    "youtube_title", "youtube_duration", "youtube_channel", "duration_match",
    "duration_difference", "search_query">>

\* The events of one iteration of the loop of spotify_youtube_search.main.
spotify_iteration_events(k) ==
  <<[loop |-> "spotify", ev |-> "call", item |-> k],
    [loop |-> "spotify", ev |-> "return", item |-> k],
    [loop |-> "spotify", ev |-> "sleep", item |-> k]>>

\* The rows of spotify_tracks_with_youtube.csv, or the ValueError of the
\* first track that holds a key outside the field names.
spotify_csv(tracks) ==
  LET rows == [k \in 1..Len(tracks) |-> DictWriterRow(tracks[k], SpotifyFieldnames)] IN
  IF \E k \in 1..Len(tracks) : rows[k].exc # "" THEN Raise("ValueError")
  ELSE Ret(<<CsvRow([k \in 1..Len(SpotifyFieldnames) |->
                       [n \in 1..Len(SpotifyFieldnames[k]) |-> "h"]])>>
             \o [k \in 1..Len(tracks) |-> rows[k].val])

\* The durations of the tracks of an input file: "3:20", or a str with no
\* colon.
SearchDurations == {<<"3", ":", "2", "0">>, <<"x">>}

\* An extracted_tracks.json whose tracks have the durations ds.
FoundTracksOf(ds) ==
  [k \in 1..Len(ds) |-> FreshTrack("youtube_search.main", PyStr(ds[k]))]

\* The lines of a spotify_track.csv whose tracks have the durations ds, under
\* its header; every second track has two artists.
SpotifyLines(ds) ==
  <<CsvHeader>>
    \o [k \in 1..Len(ds) |->
          (IF k % 2 = 1 THEN <<"t", ",", "a", ",">>
           ELSE <<"t", ",", "a", ",", "b", ",">>) \o ds[k]]

InitSearchMain ==
  /\ \E ds \in SeqsUpTo(SearchDurations, MaxTracks) :
       fs = [p \in SearchPaths |->
               CASE p = EXTRACTED_TRACKS_JSON -> JsonFile(FoundTracksOf(ds))
                 [] p = SPOTIFY_TRACK_CSV -> CsvFile(SpotifyLines(ds))
                 [] OTHER -> NoFile]
  /\ pc \in {"search_start", "spotify_start"}
  /\ download_script = "download_all_tracks"
  /\ idx = 1
  /\ ex_urls = <<>>
  /\ ex_tracks = <<>>
  /\ ys_tracks = <<>>
  /\ enhanced_tracks = <<>>
  /\ successful_matches = 0
  /\ dl_urls = <<>>
  /\ successful_downloads = <<>>
  /\ failed_downloads = <<>>
  /\ log = <<>>
  /\ exit_status = NoExit
  /\ IdleDuration
  /\ IdleSearch
  /\ IdleJson
  /\ IdleCsv

\* spotify_youtube_search.main: the tracks are loaded from spotify_track.csv.
spotify_main_start ==
  /\ pc = "spotify_start"
  /\ IF fs[SPOTIFY_TRACK_CSV] = NoFile
       THEN /\ exit_status' = [exit_status EXCEPT !.search = "FileNotFoundError"]
            /\ pc' = "finished"
            /\ UNCHANGED <<ys_tracks, enhanced_tracks, successful_matches, idx>>
       ELSE /\ ys_tracks' = spotify_main_load(fs[SPOTIFY_TRACK_CSV].rows)
            /\ enhanced_tracks' = <<>>
            /\ successful_matches' = 0
            /\ idx' = 1
            /\ pc' = "spotify_loop"
            /\ UNCHANGED exit_status
  /\ UNCHANGED <<fs, ex_urls, ex_tracks, dl_urls, successful_downloads,
                 failed_downloads, log, download_script, otherVars>>

\* One iteration: search, update the track, count a match, append, sleep.
spotify_main_iterate ==
  /\ pc = "spotify_loop"
  /\ idx <= Len(ys_tracks)
  /\ \E result \in PipelineProcResults :
       LET t == ys_tracks[idx]
           r == search_youtube_track(t["title"], t["artist"], t["duration"], result) IN
       /\ enhanced_tracks' = Append(enhanced_tracks, spotify_main_update(t, r))
       /\ successful_matches' =
            IF ~r.none /\ Truthy(r.duration_match)
              THEN successful_matches + 1 ELSE successful_matches
  /\ log' = log \o spotify_iteration_events(idx)
  /\ idx' = idx + 1
  /\ UNCHANGED <<fs, pc, ex_urls, ex_tracks, ys_tracks, dl_urls,
                 successful_downloads, failed_downloads, exit_status,
                 download_script, otherVars>>

\* After the loop: spotify_tracks_with_youtube.json and
\* spotify_tracks_with_youtube.csv are written.
spotify_main_save ==
  /\ pc = "spotify_loop"
  /\ idx > Len(ys_tracks)
  /\ LET csv == spotify_csv(enhanced_tracks) IN
       IF csv.exc # ""
         THEN /\ fs' = [fs EXCEPT ![SPOTIFY_TRACKS_WITH_YOUTUBE_JSON] =
                                    JsonFile(enhanced_tracks)]
              /\ exit_status' = [exit_status EXCEPT !.search = csv.exc]
              /\ pc' = "finished"
         ELSE /\ fs' = [fs EXCEPT ![SPOTIFY_TRACKS_WITH_YOUTUBE_JSON] =
                                    JsonFile(enhanced_tracks),
                                  ![SPOTIFY_TRACKS_WITH_YOUTUBE_CSV] = CsvFile(csv.val)]
              /\ pc' = "spotify_summary"
              /\ UNCHANGED exit_status
  /\ UNCHANGED <<idx, ex_urls, ex_tracks, ys_tracks, enhanced_tracks,
                 successful_matches, dl_urls, successful_downloads,
                 failed_downloads, log, download_script, otherVars>>

\* The results summary: successful_matches/len(spotify_tracks) divides by
\* zero on an empty list.
spotify_main_summary ==
  /\ pc = "spotify_summary"
  /\ exit_status' =
       [exit_status EXCEPT !.search =
          IF Len(ys_tracks) = 0 THEN "ZeroDivisionError" ELSE "ok"]
  /\ log' = IF Len(ys_tracks) = 0 THEN log
            ELSE Append(log, [loop |-> "spotify", ev |-> "summary", item |-> 0])
  /\ pc' = "finished"
  /\ UNCHANGED <<fs, idx, ex_urls, ex_tracks, ys_tracks, enhanced_tracks,
                 successful_matches, dl_urls, successful_downloads,
                 failed_downloads, download_script, otherVars>>

NextSearchMain ==
  \/ search_main_start
  \/ search_main_iterate
  \/ search_main_save
  \/ search_main_summary
  \/ spotify_main_start
  \/ spotify_main_iterate
  \/ spotify_main_save
  \/ spotify_main_summary

SpecSearchMain == InitSearchMain /\ [][NextSearchMain]_vars

-----------------------------------------------------------------------------
(* Properties of the loops and of the files between the scripts *)

\* The items of the calls that a loop has made, in the order of the calls.
RECURSIVE CallItems(_, _)
CallItems(events, loop) ==
  IF events = <<>> THEN <<>>
  ELSE (IF Head(events).loop = loop /\ Head(events).ev = "call"
          THEN <<Head(events).item>> ELSE <<>>)
         \o CallItems(Tail(events), loop)

Summarised(loop) ==
  \E k \in 1..Len(log) : log[k].loop = loop /\ log[k].ev = "summary"

DownloadRuns == pc = "download_loop"

DownloadEnded == pc = "finished" /\ exit_status.download # "FileNotFoundError"

\* Every URL of the list was tried once, in order, and the summary was
\* printed.
DownloadComplete ==
  /\ DownloadEnded
  /\ exit_status.download = "ok"
  /\ CallItems(log, "download") = [k \in 1..Len(dl_urls) |-> k]
  /\ Len(successful_downloads) + Len(failed_downloads) = Len(dl_urls)
  /\ Summarised("download")

C6_OncePerUrl ==
  /\ DownloadRuns =>
       /\ CallItems(log, "download") = [k \in 1..(idx - 1) |-> k]
       /\ Len(successful_downloads) + Len(failed_downloads) = idx - 1
       /\ idx <= Len(dl_urls) + 1
       /\ ~Summarised("download")
  /\ DownloadEnded => DownloadComplete

\* C6: download_youtube_to_mp3 runs the download once for each URL of its
\* list, in list order and with no retry; a download that raises does not
\* stop the loop, and the summary is reached for every list.
C6_OncePerUrlToSummary ==
  /\ []C6_OncePerUrl
  /\ DownloadRuns ~> DownloadComplete

\* The first download of two failed, the second was made and succeeded, and
\* the summary was printed.
C6_Witness ==
  /\ DownloadComplete
  /\ Len(dl_urls) = 2
  /\ Len(failed_downloads) = 1
  /\ Len(successful_downloads) = 1
  /\ \E a, b \in 1..Len(log) :
       /\ a < b
       /\ log[a] = [loop |-> "download", ev |-> "return", item |-> 1]
       /\ log[b] = [loop |-> "download", ev |-> "call", item |-> 2]

\* The calls of two consecutive items of one loop, at places a and b of log.
ConsecutiveCalls(a, b) ==
  /\ a < b
  /\ log[a].ev = "call"
  /\ log[b].ev = "call"
  /\ log[a].loop = log[b].loop
  /\ log[b].item = log[a].item + 1

ReturnedBetween(a, b) ==
  \E r \in (a + 1)..(b - 1) :
    log[r] = [loop |-> log[a].loop, ev |-> "return", item |-> log[a].item]

SleptBetween(a, b) ==
  \E s \in (a + 1)..(b - 1) : log[s].loop = log[a].loop /\ log[s].ev = "sleep"

\* C7 as stated: in each of the three loops the call of an item completes
\* before the call of the next item starts, and a sleep lies between them.
C7_SleepInEveryLoop ==
  \A a, b \in 1..Len(log) :
    ConsecutiveCalls(a, b) => ReturnedBetween(a, b) /\ SleptBetween(a, b)

\* C7, amended: in each of the three loops the call of an item completes
\* before the call of the next item starts; a sleep lies between the calls of
\* consecutive items in the extraction loop and in the search loop, and the
\* download loop never sleeps.
C7_SleepInExtractAndSearch ==
  /\ \A a, b \in 1..Len(log) :
       ConsecutiveCalls(a, b) =>
         /\ ReturnedBetween(a, b)
         /\ log[a].loop \in {"extract", "search"} => SleptBetween(a, b)
         /\ log[a].loop = "download" => ~SleptBetween(a, b)
  /\ \A k \in 1..Len(log) : ~(log[k].loop = "download" /\ log[k].ev = "sleep")

\* Two pages, two searches and two downloads were made: a sleep lies between
\* the searches, none between the downloads.
C7_Witness ==
  /\ CallItems(log, "extract") = <<1, 2>>
  /\ CallItems(log, "search") = <<1, 2>>
  /\ CallItems(log, "download") = <<1, 2>>
  /\ \E a, b \in 1..Len(log) :
       ConsecutiveCalls(a, b) /\ log[a].loop = "search" /\ SleptBetween(a, b)
  /\ \E a, b \in 1..Len(log) :
       ConsecutiveCalls(a, b) /\ log[a].loop = "download" /\ ~SleptBetween(a, b)

SearchStarted ==
  pc \in {"search_loop", "search_summary", "download_start", "download_loop",
          "finished"}

DownloadStarted == pc \in {"download_loop", "finished"}

SameRecord(a, b) ==
  \A f \in {"title", "artist", "duration", "url"} : a[f] = b[f]

\* C8: the file the extraction writes is the file the search reads, and the
\* file the search writes is the file the download reads, so that the three
\* scripts run in order hand the extracted records to the download.
C8_PipelineConnected ==
  /\ SearchStarted =>
       /\ exit_status.search # "FileNotFoundError"
       /\ Len(ys_tracks) = Len(ex_tracks)
       /\ \A k \in 1..Len(ex_tracks) : SameRecord(ys_tracks[k], ex_tracks[k])
  /\ DownloadStarted =>
       /\ exit_status.download # "FileNotFoundError"
       /\ dl_urls = youtube_urls_from(enhanced_tracks, 1)

\* What the code does instead: no script reads the file the extraction
\* writes, and the extraction leaves the file the search reads as it found it.
C8_ExtractOutputUnread ==
  /\ fs[EXTRACTED_TRACKS_JSON] \in
       {NoFile} \cup {JsonFile(FoundTracks(m)) : m \in 0..MaxTracks}
  /\ (SearchStarted /\ exit_status.search # "FileNotFoundError") =>
       ys_tracks = JsonLoad(fs[EXTRACTED_TRACKS_JSON].rows)

\* The one link that holds: download_all_tracks reads the file that
\* youtube_search.main wrote.
C8_DownloadAllReadsSearchOutput ==
  (/\ DownloadStarted
   /\ download_script = "download_all_tracks"
   /\ exit_status.search \in {"ok", "ZeroDivisionError"}) =>
    dl_urls = youtube_urls_from(enhanced_tracks, 1)

-----------------------------------------------------------------------------
(* Properties of the recorded query and of the failures of the search *)

\* The query that search_youtube_track ran for the record: its title.
QueryUsed == track["title"]

\* C11: after the search step has processed a record, its search_query holds
\* the query that was used for its search, the track title, when the search
\* returned a result and when it returned nothing, in all three drivers.
C11_QueryIsQueryUsed ==
  Enriched => track["search_query"] = QueryUsed

\* The part of C11 that the code does deliver: the query used is recorded
\* after every search by spotify_youtube_search.main and by
\* search_and_update_track, and by youtube_search.main after a search that
\* returned a result.
C11_QueryUsedElsewhere ==
  (Enriched /\ (driver # "youtube_search.main" \/ ~youtube_result.none)) =>
    track["search_query"] = QueryUsed

\* What youtube_search.main records after a search that returned nothing:
\* artist, a blank and title, a query that was never run.
C11_MainRecordsArtistAndTitle ==
  (Enriched /\ driver = "youtube_search.main" /\ youtube_result.none) =>
    track["search_query"] = PyStr(track["artist"].s \o <<" ">> \o track["title"].s)

\* The search function and its try body, as the driver of the record calls them.
SearchOf(result) ==
  IF driver = "utils"
    THEN YTS_search_youtube_track(track["title"], track["artist"],
                                  track["duration"], result)
    ELSE search_youtube_track(track["title"], track["artist"],
                              track["duration"], result)

BodyOf(result) ==
  IF driver = "utils"
    THEN yts_syt_body(track["title"], track["artist"], track["duration"], result)
    ELSE syt_body(track["title"], track["artist"], track["duration"], result)

IsJsonLine(line) == line.kind = "json"

\* The output lines that json.loads accepts, in output order.
JsonLines == SelectSeq(proc.stdout, IsJsonLine)

\* C12: search_youtube_track raises nothing and returns None when the search
\* command cannot be run or exits non-zero, when no output line parses as
\* JSON, and when an exception occurs in its body; a line that does not parse
\* is skipped, and the lines that parse are the candidates of the selection,
\* in output order: the outcome is that of the same output without the
\* rejected lines.
C12_NoneOnFailureSkipsBadLines ==
  Enriched =>
    /\ proc.exc # "" => youtube_result.none
    /\ (proc.exc = "" /\ proc.returncode # 0) => youtube_result.none
    /\ (proc.exc = "" /\ proc.returncode = 0 /\ JsonLines = <<>>)
         => youtube_result.none
    /\ BodyOf(proc).exc # "" => youtube_result.none
    /\ (proc.exc = "" /\ proc.returncode = 0) =>
         /\ Len(Candidates) = Len(JsonLines)
         /\ \A k \in 1..Len(JsonLines) : Candidates[k] = JsonLines[k].video
         /\ youtube_result = SearchOf(Completed(0, JsonLines))

\* A line that json.loads rejects came first and was skipped: the video of
\* the second line is returned as the match.
C12_Witness ==
  /\ Enriched
  /\ proc.exc = ""
  /\ Len(proc.stdout) = 2
  /\ proc.stdout[1].kind = "garbage"
  /\ proc.stdout[2].kind = "json"
  /\ ~youtube_result.none
  /\ youtube_result.duration_match = PyBool(TRUE)
  /\ Describes(youtube_result, proc.stdout[2].video)

\* The command could not be run: the exception is caught, None is returned.
C12_RunRaisesReached ==
  Enriched /\ proc.exc = "FileNotFoundError" /\ youtube_result.none

-----------------------------------------------------------------------------
(* Properties of the extraction *)

ErrorRecord(t, url) ==
  /\ t["title"] = ErrorStr
  /\ t["artist"] = ErrorStr
  /\ t["duration"] = ErrorStr
  /\ t["url"] = url

ExtractEnded == exit_status.extract = "ok"

\* The row of data/extracted_tracks.csv for the track at position k.
ExpectedExtractRow(k) ==
  IntToStr(k) \o <<",">> \o ex_tracks[k]["title"].s \o <<",">>
    \o ex_tracks[k]["artist"].s \o <<",">> \o ex_tracks[k]["duration"].s
    \o <<",">> \o ex_tracks[k]["url"].s

\* C13: extract_track_info raises nothing: on a failure it returns the record
\* whose title, artist and duration are 'Error' and whose url is the input
\* URL; the loop of extract_tracklist.main holds one record for each URL it
\* has processed, in input order, and the file holds one row for each URL,
\* its track_number the position of the URL counted from 1.
C13_OneRecordPerUrl ==
  /\ \A k \in 1..Len(ex_urls) : \A page \in PageResults :
       page.exc # "" => ErrorRecord(extract_track_info(ex_urls[k], page), ex_urls[k])
  /\ pc = "extract_loop" => Len(ex_tracks) = idx - 1
  /\ ExtractEnded => Len(ex_tracks) = Len(ex_urls)
  /\ pc # "extract_start" =>
       \A k \in 1..Len(ex_tracks) :
         /\ ex_tracks[k]["url"] = ex_urls[k]
         /\ \/ ErrorRecord(ex_tracks[k], ex_urls[k])
            \/ \A f \in {"title", "artist", "duration"} : ex_tracks[k][f] # ErrorStr
  /\ ExtractEnded =>
       /\ fs[EXTRACTED_TRACKS_CSV].kind = "csv"
       /\ Len(fs[EXTRACTED_TRACKS_CSV].rows) = Len(ex_urls) + 1
       /\ \A k \in 1..Len(ex_urls) :
            fs[EXTRACTED_TRACKS_CSV].rows[k + 1] = ExpectedExtractRow(k)

\* Two URLs were processed: the page of the first could not be read, the
\* second gave its fields, and both rows are in the file.
C13_Witness ==
  /\ ExtractEnded
  /\ Len(ex_urls) = 2
  /\ ErrorRecord(ex_tracks[1], UrlP)
  /\ ex_tracks[2]["title"] = PyStr(<<"t">>)
  /\ ex_tracks[2]["url"] = UrlQ
  /\ fs[EXTRACTED_TRACKS_CSV].rows[3] = <<"2", ",", "t", ",", "a", ",", "3", ":", "2", "0", ",", "q">>

-----------------------------------------------------------------------------
(* Properties of the URLs handed to the download *)

\* The records of the file that the download script loaded.
DownloadLoaded == JsonLoad(fs[DownloadInputPath(download_script)].rows)

DownloadLoadedOk ==
  DownloadStarted /\ exit_status.download # "FileNotFoundError"

HasUrl(t) == t["youtube_url"].type = "str" /\ t["youtube_url"].s # <<>>

\* The non-empty youtube_url values of the loaded records, in record order.
ExpectedUrls ==
  LET sel == SelectSeq(DownloadLoaded, HasUrl) IN
  [k \in 1..Len(sel) |-> sel[k]["youtube_url"]]

\* C14: the URLs handed to the download are the non-empty youtube_url values
\* of the loaded records, in record order and with duplicates kept, whatever
\* the duration_match of a record; a record whose youtube_url is null or
\* empty gives no URL.  FileManager.get_youtube_urls_from_tracks selects the
\* same URLs from the same records loaded as Tracks.
C14_UrlsOfLoadedRecords ==
  DownloadLoadedOk =>
    /\ dl_urls = ExpectedUrls
    /\ \A k \in 1..Len(dl_urls) : dl_urls[k].type = "str" /\ dl_urls[k].s # <<>>
    /\ LET loaded == load_tracks_json(fs[DownloadInputPath(download_script)].rows) IN
         loaded.exc = "" => get_youtube_urls_from_tracks(loaded.val) = ExpectedUrls

\* Two loaded records hold the same URL, one of them a fallback flagged
\* duration_match false: the URL is handed to the download twice.
C14_Witness ==
  /\ DownloadLoadedOk
  /\ Len(DownloadLoaded) = 2
  /\ Len(dl_urls) = 2
  /\ dl_urls[1] = dl_urls[2]
  /\ DownloadLoaded[1]["duration_match"] = PyBool(TRUE)
  /\ DownloadLoaded[2]["duration_match"] = PyBool(FALSE)

\* Of three loaded records, the one with a null youtube_url and the one with
\* an empty youtube_url were left out.
C14_SkippedReached ==
  /\ DownloadLoadedOk
  /\ Len(DownloadLoaded) = 3
  /\ DownloadLoaded[2]["youtube_url"] = PyNone
  /\ DownloadLoaded[3]["youtube_url"] = EmptyStr
  /\ Len(dl_urls) = 1

-----------------------------------------------------------------------------
(* Properties of the search scripts *)

SearchLoopRuns == pc \in {"search_loop", "spotify_loop"}

SearchLoopEnded ==
  \/ pc \in {"search_summary", "spotify_summary"}
  \/ exit_status.search # ""

InputFields == {"title", "artist", "duration", "track_number", "url", "source"}

\* The emitted records whose duration_match is true.
MatchedRecords ==
  {k \in 1..Len(enhanced_tracks) : enhanced_tracks[k]["duration_match"] = PyBool(TRUE)}

\* C15: the loop of a search script emits one enriched record for each input
\* record, in input order, whether its search matched, fell back or returned
\* nothing, and successful_matches is the number of emitted records whose
\* duration_match is true, during the loop and at its end.
C15_OneRecordPerInput ==
  /\ SearchLoopRuns =>
       /\ Len(enhanced_tracks) = idx - 1
       /\ idx <= Len(ys_tracks) + 1
  /\ SearchLoopEnded => Len(enhanced_tracks) = Len(ys_tracks)
  /\ (SearchLoopRuns \/ SearchLoopEnded) =>
       /\ \A k \in 1..Len(enhanced_tracks) :
            /\ \A f \in InputFields : enhanced_tracks[k][f] = ys_tracks[k][f]
            /\ enhanced_tracks[k]["duration_match"] \in {PyBool(TRUE), PyBool(FALSE)}
            /\ Present(enhanced_tracks[k]["search_query"])
       /\ successful_matches = Cardinality(MatchedRecords)

\* spotify_youtube_search.main came to its summary with two records: the
\* first matched, the search of the second fell back, and one match was
\* counted.
C15_Witness ==
  /\ pc = "finished"
  /\ exit_status.search = "ok"
  /\ Len(ys_tracks) = 2
  /\ Len(enhanced_tracks) = 2
  /\ enhanced_tracks[1]["duration_match"] = PyBool(TRUE)
  /\ enhanced_tracks[2]["duration_match"] = PyBool(FALSE)
  /\ Present(enhanced_tracks[2]["youtube_url"])
  /\ enhanced_tracks[2]["artist"] = PyStr(<<"a", ",", "b">>)
  /\ successful_matches = 1

\* youtube_search.main came to its summary with a record whose search
\* returned nothing.
C15_NoResultReached ==
  /\ pc = "download_start"
  /\ exit_status.search = "ok"
  /\ Len(enhanced_tracks) = 2
  /\ enhanced_tracks[1]["youtube_url"] = PyNone
  /\ enhanced_tracks[2]["duration_match"] = PyBool(TRUE)
  /\ successful_matches = 1

\* The script has ended, by its last statement or by an exception.
SearchScriptEnded == pc \in {"download_start", "finished"}

\* The two output files of the script that ran are written.
OutputsWritten ==
  IF pc \in {"search_summary", "download_start"}
    THEN /\ fs[TRACKS_WITH_YOUTUBE_JSON] = JsonFile(enhanced_tracks)
         /\ fs[TRACKS_WITH_YOUTUBE_CSV].kind = "csv"
         /\ Len(fs[TRACKS_WITH_YOUTUBE_CSV].rows) = Len(ys_tracks) + 1
    ELSE /\ fs[SPOTIFY_TRACKS_WITH_YOUTUBE_JSON] = JsonFile(enhanced_tracks)
         /\ fs[SPOTIFY_TRACKS_WITH_YOUTUBE_CSV].kind = "csv"
         /\ Len(fs[SPOTIFY_TRACKS_WITH_YOUTUBE_CSV].rows) = Len(ys_tracks) + 1

\* C16: for every input list, the empty list included, the search script
\* writes its JSON and its CSV file and completes its results summary, and
\* raises nothing.
C16_SummaryCompletes ==
  SearchScriptEnded =>
    /\ OutputsWritten
    /\ exit_status.search = "ok"
    /\ Summarised("search") \/ Summarised("spotify")

\* The part of C16 that the code does deliver: the two files are written
\* for every list, and the summary completes for every list that is not empty.
C16_CompletesOnNonEmpty ==
  /\ (pc \in {"search_summary", "spotify_summary"} \/ SearchScriptEnded)
       => OutputsWritten
  /\ (SearchScriptEnded /\ Len(ys_tracks) > 0) =>
       /\ exit_status.search = "ok"
       /\ Summarised("search") \/ Summarised("spotify")

\* What the empty list does instead: the match rate divides by zero, in both
\* scripts, after the files are written.
C16_EmptyListRaises ==
  (SearchScriptEnded /\ Len(ys_tracks) = 0) =>
    /\ exit_status.search = "ZeroDivisionError"
    /\ ~(Summarised("search") \/ Summarised("spotify"))

-----------------------------------------------------------------------------
(* Properties of a candidate that reports no duration *)

\* The candidate reports no duration: the key is missing, or it is 0.
NoDuration(v) == v["duration"] = Absent \/ v["duration"] = PyInt(0)

\* The loop gets as far as candidate k: every candidate before it was
\* compared and was further than 5 seconds from the target.
LoopReaches(k) ==
  \A j \in 1..(k - 1) : HasSeconds(Candidates[j]) /\ ~Within(Candidates[j])

\* The selection ran on a non-empty list of candidates, whatever the target.
SelectionRanOnAnyTarget ==
  /\ Enriched
  /\ proc.exc = ""
  /\ proc.returncode = 0
  /\ Candidates # <<>>

\* The returned dict is candidate v accepted with no duration of its own: the
\* difference is the whole target.
AcceptedAsUnknown(v) ==
  /\ Describes(youtube_result, v)
  /\ youtube_result.duration_match = PyBool(TRUE)
  /\ youtube_result.youtube_duration = Unknown
  /\ youtube_result.duration_difference = PyInt(TargetSeconds)

ReturnedAsUnknownMatch ==
  /\ ~youtube_result.none
  /\ youtube_result.duration_match = PyBool(TRUE)
  /\ youtube_result.youtube_duration = Unknown

\* C17: a candidate that reports no duration (missing or 0) is compared as 0
\* seconds: it is accepted as a match, with youtube_duration "Unknown",
\* exactly when the target converts to at most 5 seconds, which every
\* malformed target does (it counts 0), a missing one included; for a target
\* above 5 seconds it is never returned with duration_match true.
C17_NoDurationCandidate ==
  SelectionRanOnAnyTarget =>
    \A k \in 1..Len(Candidates) :
      (NoDuration(Candidates[k]) /\ LoopReaches(k)) =>
        IF TargetSeconds <= Tolerance
          THEN AcceptedAsUnknown(Candidates[k])
          ELSE ~ReturnedAsUnknownMatch

\* The part of C17 that the code does deliver: the same, for every target
\* that is a str, malformed or not.
C17_WithStrTarget ==
  SelectionRan =>
    /\ \A k \in 1..Len(Candidates) :
         (NoDuration(Candidates[k]) /\ LoopReaches(k)) =>
           IF TargetSeconds <= Tolerance
             THEN AcceptedAsUnknown(Candidates[k])
             ELSE ~ReturnedAsUnknownMatch
    /\ ReturnedAsUnknownMatch => TargetSeconds <= Tolerance

\* What a missing target does instead: the conversion raises TypeError, the
\* search returns None and no candidate is accepted.
C17_NullTargetNoResult ==
  (SelectionRanOnAnyTarget /\ track["duration"].type # "str") =>
    youtube_result.none

\* A candidate with no duration accepted for a malformed str target, and one
\* passed over for a target of 200 seconds.
C17_AcceptedReached ==
  /\ SelectionRan
  /\ Malformed(track["duration"])
  /\ NoDuration(Candidates[1])
  /\ AcceptedAsUnknown(Candidates[1])

C17_PassedOverReached ==
  /\ SelectionRan
  /\ TargetSeconds = 200
  /\ NoDuration(Candidates[1])
  /\ Matched

====
